---------------------------- MODULE Spec2Model ----------------------------
(***************************************************************************)
(* A model of samp-sdk, the host-side layer between a SA:MP plugin and the *)
(* AMX virtual machine ("the guest").  The repository holds two            *)
(* generations of the layer: the macro based one (src/src/amx.rs,          *)
(* src/src/macros.rs: struct AMX, new_plugin!, define_native!) and the     *)
(* code-generating one (src/sdk, src/codegen: struct Amx,                  *)
(* #[contains_natives]).  Both are modelled, side by side.                 *)
(*                                                                         *)
(* Cells are 32-bit.  A cell is held as the signed integer its bits spell  *)
(* (an i32); the places where the code reinterprets the bits as unsigned   *)
(* (usize / u32) use the unsigned order ULt on those bit patterns.         *)
(***************************************************************************)
EXTENDS Integers, Sequences, FiniteSets, TLC

(***************************************************************************)
(* Bounds of the model.                                                    *)
(***************************************************************************)
MaxAddr == 3        \* guest addresses hea, stk, stp range over 0..MaxAddr
MaxDepth == 2       \* native frames nested through exec at any one time
MaxPushes == 2      \* arrays and strings a host-initiated call pushes
HeapCells == 12     \* cells of the guest's heap and stack area
MaxCells == 3       \* cells of a guest string handed to the decoder
MaxSize == 5        \* the largest max_length handed to the decoder
MaxStatus == 29     \* the largest status code an export returns
MaxTimers == 2      \* timers in the list of the timer plugin
MaxArgs == 2        \* arguments a timer passes to its callback
MaxStores == 2      \* accesses to the guest's cells, by natives and the guest
MaxNow == 3         \* the last instant of the clock the timers are read at

(***************************************************************************)
(* AmxResult<T>: Ok(value) or Err(AmxError).                               *)
(***************************************************************************)
Ok(v)  == [ok |-> TRUE,  val |-> v, err |-> 0]
Err(e) == [ok |-> FALSE, val |-> 0, err |-> e]

\* Option<T>, and std::cmp::min.
None == [some |-> FALSE]
Some(v) == [some |-> TRUE, val |-> v]

Min(a, b) == IF a < b THEN a ELSE b

MemoryAccess == 5   \* AmxError::MemoryAccess

CellSize == 4       \* size_of::<Cell>()

(***************************************************************************)
(* a < b for two 32-bit patterns read as unsigned values, each pattern     *)
(* being held as its signed value: patterns of equal sign compare as the   *)
(* signed values do, and a pattern with the top bit set is the larger.     *)
(***************************************************************************)
ULt(a, b) == IF (a < 0) = (b < 0) THEN a < b ELSE b < 0
UGe(a, b) == ~ULt(a, b)

VARIABLES
    hea, stk, stp,  \* the guest's heap boundary, stack pointer, stack top
    data,           \* the guest's explicit data pointer, NULL when absent
    gaCall,         \* the last get_address call and its result
    gaPrev,         \* the last get_address call made before the guest moved
    frames,         \* the native entry points now running, innermost last
    mutex,          \* whether ___PLUGIN (the Mutex of new_plugin!) is locked
    proc,           \* "running", or how the host process ended
    panicAt,        \* where a panic was raised, "none" when there was none
    lastExit,       \* what the last native to return gave back to the guest
    amx_error,      \* the guest's error state, as set through raise-error
    mem,            \* the cells of the guest's heap and stack area
    stack,          \* the cells pushed for the next exec, last pushed last
    callPc,         \* where the host code of a host-initiated call stands
    plan,           \* the arrays and strings that call has yet to push
    firstAddr,      \* the address its first push returned
    hea0,           \* the guest's hea when the call began
    pushes,         \* the pushes of the call that succeeded
    callRes,        \* what the call returned to its caller
    lastPush,       \* the last push_array / push_string and what it did
    strCells,       \* the cells of a guest string, from its address on
    strBeyond,      \* what every cell after them holds
    strSize,        \* the max_length the decoder is called with
    strOut,         \* what the decoder returned
    expCall,        \* the last call of an export wrapper and its result
    conv,           \* the last conversion of a status code to a fault
    convPrev,       \* the conversion before it
    timers,         \* PreciseTimers::timers, the scheduled timers
    trig,           \* the last host-initiated call: what it pushed, in order
    clock,          \* the last instant Instant::now() returned
    timerOp,        \* the last create, delete or process_tick, its outcome
    build,          \* how the build treats a local an export writes through
    hostMem,        \* the host's memory where the guest's data lies, in bytes
    refOp,          \* the last access through a by-reference parameter
    plug,           \* the plugin's process-wide state: PLUGIN, INTERNAL
    trip,           \* the last string written to the guest, and its decoding
    sarg            \* the last string argument a native decoded

guestVars == <<hea, stk, stp, data>>
nativeVars == <<frames, mutex, proc, panicAt, lastExit, amx_error>>
callVars ==
    <<mem, stack, callPc, plan, firstAddr, hea0, pushes, callRes, lastPush>>
strVars == <<strCells, strBeyond, strSize, strOut>>
faultVars == <<expCall, conv, convPrev>>
timerVars == <<timers, trig, clock, timerOp>>
refVars == <<hostMem, refOp>>
plugVars == <<plug>>
tripVars == <<trip>>
argVars == <<sarg>>
restVars == <<refVars, plugVars, tripVars, argVars>>
coreVars ==
    <<guestVars, gaCall, gaPrev, nativeVars, callVars, strVars, faultVars,
      timerVars, build>>
nonFreshVars ==
    <<nativeVars, callVars, strVars, faultVars, timerVars, build, restVars>>
nonAddrVars == <<gaPrev, nonFreshVars>>
nonNativeVars ==
    <<guestVars, gaCall, gaPrev, callVars, strVars, faultVars, timerVars,
      build, restVars>>
nonCallVars ==
    <<stp, data, gaCall, gaPrev, nativeVars, strVars, faultVars, timerVars,
      build, restVars>>
nonStrVars ==
    <<guestVars, gaCall, gaPrev, nativeVars, callVars, faultVars, timerVars,
      build, restVars>>
vars == <<hea, stk, stp, data, gaCall, gaPrev,
          frames, mutex, proc, panicAt, lastExit, amx_error,
          mem, stack, callPc, plan, firstAddr, hea0, pushes, callRes, lastPush,
          strCells, strBeyond, strSize, strOut,
          expCall, conv, convPrev, timers, trig, clock, timerOp, build,
          hostMem, refOp,
          plug, trip, sarg>>

(***************************************************************************)
(* The guest's fields.  hea, stk and stp are cells the guest maintains;    *)
(* the host reads them as they are at each call.  They are non-negative    *)
(* (offsets into a data segment smaller than 2^31 bytes) but come in any   *)
(* order, since the host may not trust hea <= stk <= stp.                  *)
(***************************************************************************)
GuestAddrs == 0 .. MaxAddr
NULL == 0
DataPtrs == {NULL, 4096}
amx_base == 256         \* (*amx).base: where the module header lies
header_dat == 64        \* (*header).dat: offset of the data segment

\* The addresses a caller may hand to get_address: a cell, possibly negative.
Addresses == -2 .. MaxAddr + 1

NoCall == [fn |-> "none", address |-> 0, result |-> Err(0)]

NoExit == [impl |-> "none"]

\* No native is running or has run.
NativeIdle ==
    /\ frames = <<>>
    /\ mutex = FALSE
    /\ proc = "running"
    /\ panicAt = "none"
    /\ lastExit = NoExit
    /\ amx_error = 0

\* No host-initiated call is under way; the heap and stack area holds what
\* the guest left there, -1 in every cell.
CallIdle ==
    /\ mem = [i \in 0 .. HeapCells - 1 |-> -1]
    /\ stack = <<>>
    /\ callPc = "idle"
    /\ plan = <<>>
    /\ firstAddr = -1
    /\ hea0 = 0
    /\ pushes = 0
    /\ callRes = Err(0)
    /\ lastPush = [kind |-> "none"]

NoOut == [fn |-> "none"]

\* No string is being decoded.
StrIdle ==
    /\ strCells = <<0>>
    /\ strBeyond = 0
    /\ strSize = 0
    /\ strOut = NoOut

NoConv == [code |-> 0, fault |-> "none", fields |-> <<>>, raised |-> 0]

\* No export wrapper was called and no status code converted.
FaultIdle ==
    /\ expCall = [fn |-> "none"]
    /\ conv = NoConv
    /\ convPrev = NoConv

(***************************************************************************)
(* An export that returns a value stores it through a pointer the wrapper  *)
(* makes with transmute(&local), where local is bound without `mut`        *)
(* (`let retval = -1;`, `let amx_addr = 0;`).  Writing to an immutable     *)
(* binding is undefined: the build either reads the stored value back      *)
(* ("reread") or takes the local to hold its initializer still ("folded"). *)
(***************************************************************************)
Builds == {"reread", "folded"}

Local(initial, stored) == IF build = "folded" THEN initial ELSE stored

\* No timer is scheduled and host code has called no guest function.
TimerIdle ==
    /\ timers = <<>>
    /\ trig = [kind |-> "none"]
    /\ clock = 0
    /\ timerOp = [kind |-> "none"]

(***************************************************************************)
(* Amx::data_section (sdk) and the same computation inlined in             *)
(* AMX::get_address (src/src/amx.rs).                                      *)
(***************************************************************************)
data_section_base(d) == amx_base + header_dat

data_section(d) == IF d = NULL THEN amx_base + header_dat ELSE d

(***************************************************************************)
(* AMX::get_address of src/src/amx.rs: address, hea, stk, stp are i32.     *)
(***************************************************************************)
get_address_noneg(h, s, p, d, address) ==
    IF (address >= h /\ address < s) \/ address >= p
    THEN Err(MemoryAccess)
    ELSE Ok(data_section(d) + address)

get_address(h, s, p, d, address) ==
    IF (address >= h /\ address < s) \/ address < 0 \/ address >= p
    THEN Err(MemoryAccess)
    ELSE Ok(data_section(d) + address)

(***************************************************************************)
(* Amx::get_address of src/sdk/src/amx.rs: address, hea, stk, stp are      *)
(* usize, so every comparison is unsigned and there is no test for a       *)
(* negative address.                                                       *)
(***************************************************************************)
Amx_get_address_gap(h, s, p, d, address) ==
    IF (UGe(address, h) /\ UGe(s, address)) \/ UGe(address, p)
    THEN Err(MemoryAccess)
    ELSE Ok(data_section(d) + address)

Amx_get_address(h, s, p, d, address) ==
    IF (UGe(address, h) /\ ULt(address, s)) \/ UGe(address, p)
    THEN Err(MemoryAccess)
    ELSE Ok(data_section(d) + address)

(***************************************************************************)
(* The host's memory at the places a guest's data can lie, byte by byte:   *)
(* from either data base, as far as a cell that starts below stp reaches.  *)
(***************************************************************************)
Locations ==
    {data_section(d) + k : d \in DataPtrs, k \in 0 .. MaxAddr + CellSize - 1}

\* What the memory holds before any store: no two neighbours alike.
HostBytes0 == [l \in Locations |-> 16 + (l % 5)]

NoRef == [kind |-> "none", n |-> 0]

\* No native has touched a by-reference parameter.
RefIdle ==
    /\ hostMem = HostBytes0
    /\ refOp = NoRef

\* InternalData; INTERNAL is None until Load.
NoInternal == [some |-> FALSE, logprintf |-> 0, amx_functions |-> 0]

NoLookup == [made |-> FALSE, table |-> 0, ordinal |-> "none"]

\* The plugin library is in the process and Load has not been called.
NoPlugin ==
    [layer |-> "none", INTERNAL |-> NoInternal, amxs |-> {},
     atLoad |-> [logprintf |-> 0, exports |-> 0], lookup |-> NoLookup,
     logged |-> 0, done |-> {}]

PlugIdle == plug = NoPlugin

NoTrip == [encoder |-> "none"]

\* No string has been written to the guest.
TripIdle == trip = NoTrip

NoArg == [fn |-> "none"]

\* No string argument has been decoded.
ArgIdle == sarg = NoArg

RestIdle == RefIdle /\ PlugIdle /\ TripIdle /\ ArgIdle

(***************************************************************************)
(* Address resolution: the guest state is any, host code calls either      *)
(* get_address, and between calls the guest may move its heap and stack    *)
(* and relocate its data.  A pointer got before the guest moved is not     *)
(* kept (borrowed guest memory does not outlive the call).                 *)
(***************************************************************************)
InitAddr ==
    /\ hea \in GuestAddrs
    /\ stk \in GuestAddrs
    /\ stp \in GuestAddrs
    /\ data \in DataPtrs
    /\ gaCall = NoCall
    /\ gaPrev = NoCall
    /\ NativeIdle
    /\ CallIdle
    /\ StrIdle
    /\ FaultIdle
    /\ TimerIdle
    /\ build \in Builds
    /\ RestIdle

CallGetAddress ==
    \E a \in Addresses :
        /\ gaCall' = [fn |-> "AMX::get_address", address |-> a,
                      result |-> get_address(hea, stk, stp, data, a)]
        /\ UNCHANGED <<guestVars, nonAddrVars>>

CallAmxGetAddress ==
    \E a \in Addresses :
        /\ gaCall' = [fn |-> "Amx::get_address", address |-> a,
                      result |-> Amx_get_address(hea, stk, stp, data, a)]
        /\ UNCHANGED <<guestVars, nonAddrVars>>

GuestMoves ==
    /\ hea' \in GuestAddrs
    /\ stk' \in GuestAddrs
    /\ stp' \in GuestAddrs
    /\ data' \in DataPtrs
    /\ gaCall' = NoCall
    /\ UNCHANGED nonAddrVars

NextAddr == CallGetAddress \/ CallAmxGetAddress \/ GuestMoves

SpecAddr == InitAddr /\ [][NextAddr]_vars

(***************************************************************************)
(* C1.  For every guest state and every address a, get_address(a) returns  *)
(* the MemoryAccess error when hea <= a < stk, or a >= stp, or a < 0, and  *)
(* then produces no pointer.                                               *)
(***************************************************************************)
Called == gaCall.fn # "none"

InvalidAddress(a) == (hea <= a /\ a < stk) \/ a >= stp \/ a < 0

C1_InvalidAddressFails ==
    (Called /\ InvalidAddress(gaCall.address))
        => gaCall.result = Err(MemoryAccess)

\* A negative address handed to the usize-typed get_address of the sdk, in a
\* guest state with a non-empty gap and a non-empty stack.
C1_Witness ==
    /\ gaCall.fn = "Amx::get_address"
    /\ gaCall.address < 0
    /\ hea < stk /\ stk < stp
    /\ gaCall.result = Err(MemoryAccess)

(***************************************************************************)
(* C2.  As claimed: whenever hea <= stk <= stp and stp >= 1,               *)
(* get_address(stp - 1) succeeds.                                          *)
(***************************************************************************)
C2_LastAddressSucceeds_Claimed ==
    (Called /\ hea <= stk /\ stk <= stp /\ stp >= 1
        /\ gaCall.address = stp - 1)
        => gaCall.result.ok

(***************************************************************************)
(* C2, amended.  With hea <= stk <= stp and stp >= 1, get_address(stp - 1) *)
(* succeeds exactly when stk < stp or hea = stp: it yields the location    *)
(* data_base + stp - 1.  With an empty stack (stk = stp) above a heap that *)
(* ends lower (hea < stp) the address stp - 1 lies in the gap [hea, stk)   *)
(* and get_address fails with MemoryAccess.                                *)
(***************************************************************************)
C2_LastAddressSucceeds ==
    (Called /\ hea <= stk /\ stk <= stp /\ stp >= 1
        /\ gaCall.address = stp - 1)
        => IF stk < stp \/ hea = stp
           THEN gaCall.result = Ok(data_section(data) + stp - 1)
           ELSE gaCall.result = Err(MemoryAccess)

C2_Witness ==
    /\ gaCall.fn = "AMX::get_address"
    /\ hea <= stk /\ stk < stp
    /\ gaCall.address = stp - 1
    /\ gaCall.result.ok

(***************************************************************************)
(* The guest changes between two get_address calls: it moves its heap and  *)
(* stack, moves the top of its stack, or relocates its data segment.  The  *)
(* call made before the change is kept, for comparison, in gaPrev.         *)
(***************************************************************************)
Remember ==
    /\ gaPrev' = IF gaCall = NoCall THEN gaPrev ELSE gaCall
    /\ gaCall' = NoCall

GuestMovesHeapStack ==
    /\ hea' \in GuestAddrs
    /\ stk' \in GuestAddrs
    /\ Remember
    /\ UNCHANGED <<stp, data, nonFreshVars>>

GuestMovesStackTop ==
    /\ stp' \in GuestAddrs
    /\ Remember
    /\ UNCHANGED <<hea, stk, data, nonFreshVars>>

GuestRelocatesData ==
    /\ data' \in DataPtrs
    /\ Remember
    /\ UNCHANGED <<hea, stk, stp, nonFreshVars>>

NextFresh ==
    \/ CallGetAddress
    \/ CallAmxGetAddress
    \/ GuestMovesHeapStack
    \/ GuestMovesStackTop
    \/ GuestRelocatesData

SpecFresh == InitAddr /\ [][NextFresh]_vars

(***************************************************************************)
(* C20.  Each get_address call validates against and resolves with the     *)
(* hea, stk, stp, data and base current at that call: whatever calls and   *)
(* guest-state changes came before, its outcome is the one the guest state *)
(* at the call decides.                                                    *)
(***************************************************************************)
C20_OutcomeOfCurrentState ==
    Called =>
        gaCall.result =
            IF InvalidAddress(gaCall.address)
            THEN Err(MemoryAccess)
            ELSE Ok((IF data = NULL THEN amx_base + header_dat ELSE data)
                    + gaCall.address)

\* The same address was resolved twice, with the data segment relocated in
\* between, and the two calls gave two different locations.
C20_Witness ==
    /\ Called
    /\ gaPrev.fn = gaCall.fn
    /\ gaPrev.address = gaCall.address
    /\ gaPrev.result.ok /\ gaCall.result.ok
    /\ gaPrev.result.val # gaCall.result.val

(***************************************************************************)
(* Natives: host methods the guest calls through an extern "C" entry       *)
(* point.  Two generators of entry points exist: #[contains_natives]       *)
(* (src/codegen/src/natives.rs, impl "codegen") and define_native!         *)
(* (src/src/macros.rs, impl "macro").                                      *)
(***************************************************************************)
Bounds == 4         \* AmxError::Bounds
Memory == 16        \* AmxError::Memory
General == 27       \* AmxError::General
Unknown == 28       \* AmxError::Unknown, the variant after General = 27

\* enum AmxError: each variant with its discriminant.  Unknown has no
\* explicit one and takes the next after General = 27; it has no field.
AmxErrorDiscr ==
    ("Exit" :> 1) @@ ("Assert" :> 2) @@ ("StackError" :> 3) @@
    ("Bounds" :> 4) @@ ("MemoryAccess" :> 5) @@
    ("InvalidInstruction" :> 6) @@ ("StackLow" :> 7) @@ ("HeapLow" :> 8) @@
    ("Callback" :> 9) @@ ("Native" :> 10) @@ ("Divide" :> 11) @@
    ("Sleep" :> 12) @@ ("InvalidState" :> 13) @@ ("Memory" :> 16) @@
    ("Format" :> 17) @@ ("Version" :> 18) @@ ("NotFound" :> 19) @@
    ("Index" :> 20) @@ ("Debug" :> 21) @@ ("Init" :> 22) @@
    ("UserData" :> 23) @@ ("InitJit" :> 24) @@ ("Params" :> 25) @@
    ("Domain" :> 26) @@ ("General" :> 27) @@ ("Unknown" :> 28)

\* The fields a variant carries: every variant of the enum is a unit variant.
AmxErrorFields(error) == <<>>

\* `error as i32`, as raise_error hands a fault to the RaiseError export.
as_i32_dense(error) ==
    IF AmxErrorDiscr[error] > 13
    THEN AmxErrorDiscr[error] - 2
    ELSE AmxErrorDiscr[error]

as_i32(error) == AmxErrorDiscr[error]

\* impl From<i32> for AmxError: the variant the match yields.
AmxError_variant(val) ==
    CASE val = 1 -> "Exit"
      [] val = 2 -> "Assert"
      [] val = 3 -> "StackError"
      [] val = 4 -> "Bounds"
      [] val = 5 -> "MemoryAccess"
      [] val = 6 -> "InvalidInstruction"
      [] val = 7 -> "StackLow"
      [] val = 8 -> "HeapLow"
      [] val = 9 -> "Callback"
      [] val = 10 -> "Native"
      [] val = 11 -> "Divide"
      [] val = 12 -> "Sleep"
      [] val = 13 -> "InvalidState"
      [] val = 16 -> "Memory"
      [] val = 17 -> "Format"
      [] val = 18 -> "Version"
      [] val = 19 -> "NotFound"
      [] val = 20 -> "Index"
      [] val = 21 -> "Debug"
      [] val = 22 -> "Init"
      [] val = 23 -> "UserData"
      [] val = 24 -> "InitJit"
      [] val = 25 -> "Params"
      [] val = 26 -> "Domain"
      [] val = 27 -> "General"
      [] OTHER -> "Unknown"

\* AmxError::from(val), the fault held as its discriminant.
AmxError_from(val) == as_i32(AmxError_variant(val))

\* What an export of the guest VM may return: AMX_ERR_NONE or a fault.
ExportStatuses == {0, Memory}

Impls == {"codegen", "macro"}

\* The declared parameters of the natives: by value, by reference, string.
\* <<"val", "ref", "str">> is my_native of src/testique.
Natives(impl) ==
    IF impl = "codegen"
    THEN {<<"val">>, <<"ref", "val">>, <<"val", "ref", "str">>}
    ELSE {<<"ref">>, <<"ref", "val">>}

\* The cells the guest passes: 7 by value; as an address 0 (below hea,
\* accessible) or 1 (in the gap [hea, stk) of the guest state of InitNative).
CellsFor(kind) == IF kind = "val" THEN {7} ELSE {0, 1}

\* args[0] is the byte size of the arguments the guest pushed, args[1..] the
\* cells the entry point can reach.  The guest may pass one argument fewer or
\* one more than the native declares.
ArgCounts(sig) == {k \in {Len(sig) - 1, Len(sig), Len(sig) + 1} : k >= 0}

ArgVectors(sig) ==
    { [i \in 0 .. Len(sig) |-> IF i = 0 THEN CellSize * k ELSE c[i]] :
        k \in ArgCounts(sig),
        c \in {x \in [1 .. Len(sig) -> {0, 1, 7}] :
                  \A i \in 1 .. Len(sig) : x[i] \in CellsFor(sig[i])} }

\* What a host method may return; -1 is the u32 0xFFFFFFFF.
MethodResults == {Ok(0), Ok(500), Ok(-1), Err(Bounds)}

\* std::mem::transmute::<u16, _> would keep the low half of the value only.
transmute_u16(value) == value % 65536

\* std::mem::transmute(value) of natives.rs:70: the i32 that has the four
\* bytes of the value the method returned (a u32 in src/testique).
transmute(value) ==
    LET low == value % 65536
        high == (value \div 65536) % 65536
    IN  low + 65536 * (IF high >= 32768 THEN high - 65536 ELSE high)

NewFrame(impl, sig, args) ==
    [impl |-> impl, sig |-> sig, args |-> args, idx |-> 1, reads |-> {},
     decoded |-> <<>>, pc |-> "decode", decodeFailed |-> FALSE,
     called |-> FALSE, logged |-> 0, raised |-> FALSE]

Top == frames[Len(frames)]
SetTop(f) == [frames EXCEPT ![Len(frames)] = f]
Pop == SubSeq(frames, 1, Len(frames) - 1)

\* The record of an entry point that returned ret to the guest.
ExitOf(f, retval, ret) ==
    [impl |-> f.impl, sig |-> f.sig, args |-> f.args, reads |-> f.reads,
     decoded |-> f.decoded, decodeFailed |-> f.decodeFailed,
     called |-> f.called, retval |-> retval, ret |-> ret,
     logged |-> f.logged, raised |-> f.raised]

(***************************************************************************)
(* AmxValueDecode::decode (src/sdk/src/arguments.rs): the results a        *)
(* parameter of the given kind can decode to.  A string asks the guest's   *)
(* StrLen export for the length, which may return a fault.                 *)
(***************************************************************************)
AmxValueDecode(kind, value) ==
    IF kind = "val"
    THEN {Ok(value)}
    ELSE LET ptr == Amx_get_address(hea, stk, stp, data, value)
         IN  IF kind = "ref" \/ ~ptr.ok
             THEN {ptr}
             ELSE {IF status = 0 THEN ptr ELSE Err(AmxError_from(status)) :
                      status \in ExportStatuses}

(***************************************************************************)
(* A panic inside an extern "C" function: the build either aborts the      *)
(* process or unwinds into the guest VM's C frames (undefined behaviour).  *)
(* Either way the entry point returns nothing to the guest.                *)
(***************************************************************************)
Panic(where) ==
    /\ proc' \in {"aborted", "unwound"}
    /\ panicAt' = where

Running == proc = "running" /\ frames # <<>>

InitNative ==
    /\ hea = 1 /\ stk = 2 /\ stp = 3
    /\ data \in DataPtrs
    /\ gaCall = NoCall
    /\ gaPrev = NoCall
    /\ NativeIdle
    /\ CallIdle
    /\ StrIdle
    /\ FaultIdle
    /\ TimerIdle
    /\ build \in Builds
    /\ RestIdle

\* The guest, at top level or inside an exec a host method started, calls a
\* native of the plugin.
GuestCallsNative ==
    /\ proc = "running"
    /\ Len(frames) < MaxDepth
    /\ IF frames = <<>> THEN TRUE ELSE Top.pc = "exec"
    /\ \E impl \in Impls :
        /\ IF frames = <<>> THEN TRUE ELSE impl = frames[1].impl
        /\ \E sig \in Natives(impl) : \E args \in ArgVectors(sig) :
              frames' = Append(frames, NewFrame(impl, sig, args))
    /\ lastExit' = NoExit
    /\ UNCHANGED <<nonNativeVars, mutex, proc, panicAt, amx_error>>

\* natives.rs:43-54: let #pat = <#ty>::decode(&__amx, args.offset(i).read(),
\* None).unwrap(); for the next declared parameter.
CodegenDecode ==
    /\ Running /\ Top.impl = "codegen" /\ Top.pc = "decode"
    /\ Top.idx <= Len(Top.sig)
    /\ \E r \in AmxValueDecode(Top.sig[Top.idx], Top.args[Top.idx]) :
        IF r.ok
        THEN /\ frames' = SetTop([Top EXCEPT !.idx = @ + 1,
                                             !.reads = @ \cup {Top.idx},
                                             !.decoded = Append(@, r.val)])
             /\ UNCHANGED <<proc, panicAt>>
        ELSE /\ frames' = SetTop([Top EXCEPT !.reads = @ \cup {Top.idx},
                                             !.decodeFailed = TRUE])
             /\ Panic("decode")
    /\ UNCHANGED <<nonNativeVars, mutex, lastExit, amx_error>>

\* natives.rs:67: __plugin.#method_name(&__amx, args...); the plugin is the
\* static PLUGIN (plugin.rs:24,37-41), reached without a lock.
CodegenCall ==
    /\ Running /\ Top.impl = "codegen" /\ Top.pc = "decode"
    /\ Top.idx > Len(Top.sig)
    /\ frames' = SetTop([Top EXCEPT !.pc = "method", !.called = TRUE])
    /\ UNCHANGED <<nonNativeVars, mutex, proc, panicAt, lastExit, amx_error>>

\* AMX::raise_error(err).unwrap(); return 0;  (macros.rs:227-228, 315-316)
\* for the frame f, whose lock is released already.
RaiseErrorUnwrapReturn0(f, retval) ==
    \E status \in ExportStatuses :
        IF status = 0
        THEN /\ amx_error' = retval.err
             /\ frames' = Pop
             /\ lastExit' = ExitOf([f EXCEPT !.raised = TRUE], retval, 0)
             /\ UNCHANGED <<proc, panicAt>>
        ELSE /\ frames' = SetTop(f)
             /\ Panic("raise_error")
             /\ UNCHANGED <<lastExit, amx_error>>

\* expand_args! (macros.rs:303-334): the next declared parameter is read
\* through the parser; a reference is resolved with AMX::get_address.
MacroDecode ==
    /\ Running /\ Top.impl = "macro" /\ Top.pc = "decode"
    /\ Top.idx <= Len(Top.sig)
    /\ LET value == Top.args[Top.idx]
           read == [Top EXCEPT !.reads = @ \cup {Top.idx}]
           r == IF Top.sig[Top.idx] = "val" THEN Ok(value)
                ELSE get_address(hea, stk, stp, data, value)
       IN  IF r.ok
           THEN /\ frames' = SetTop([read EXCEPT !.idx = @ + 1,
                                                 !.decoded = Append(@, r.val)])
                /\ UNCHANGED <<proc, panicAt, lastExit, amx_error>>
           ELSE RaiseErrorUnwrapReturn0([read EXCEPT !.decodeFailed = TRUE], r)
    /\ UNCHANGED <<nonNativeVars, mutex>>

\* macros.rs:215: super::___PLUGIN.lock().unwrap().$name(&mut amx, ...).
\* ___PLUGIN is a std::sync::Mutex; locking it again on the thread that holds
\* it never returns: it deadlocks or panics.
MacroLockCall ==
    /\ Running /\ Top.impl = "macro" /\ Top.pc = "decode"
    /\ Top.idx > Len(Top.sig)
    /\ IF mutex
       THEN /\ \/ proc' = "deadlocked" /\ panicAt' = "none"
               \/ Panic("lock")
            /\ UNCHANGED <<frames, mutex>>
       ELSE /\ mutex' = TRUE
            /\ frames' = SetTop([Top EXCEPT !.pc = "method", !.called = TRUE])
            /\ UNCHANGED <<proc, panicAt>>
    /\ UNCHANGED <<nonNativeVars, lastExit, amx_error>>

\* The host method calls exec: the guest runs and may call natives.
MethodCallsExec ==
    /\ Running /\ Top.pc = "method"
    /\ frames' = SetTop([Top EXCEPT !.pc = "exec"])
    /\ UNCHANGED <<nonNativeVars, mutex, proc, panicAt, lastExit, amx_error>>

\* The guest function ends and exec returns to the host method.
ExecReturns ==
    /\ Running /\ Top.pc = "exec"
    /\ frames' = SetTop([Top EXCEPT !.pc = "method"])
    /\ UNCHANGED <<nonNativeVars, mutex, proc, panicAt, lastExit, amx_error>>

\* natives.rs:67-77: the method returns; Ok(value) is transmuted and
\* returned, Err(error) is logged through InternalData::log and 0 returned.
CodegenReturn ==
    /\ Running /\ Top.impl = "codegen" /\ Top.pc = "method"
    /\ \E retval \in MethodResults :
        /\ frames' = Pop
        /\ lastExit' =
              IF retval.ok
              THEN ExitOf(Top, retval, transmute(retval.val))
              ELSE ExitOf([Top EXCEPT !.logged = @ + 1], retval, 0)
    /\ UNCHANGED <<nonNativeVars, mutex, proc, panicAt, amx_error>>

\* macros.rs:215-230: the method returns and the guard of ___PLUGIN is
\* dropped; Ok(res) is returned, Err(err) goes to raise_error(err).unwrap().
MacroReturn ==
    /\ Running /\ Top.impl = "macro" /\ Top.pc = "method"
    /\ mutex' = FALSE
    /\ \E retval \in MethodResults :
        IF retval.ok
        THEN /\ frames' = Pop
             /\ lastExit' = ExitOf(Top, retval, retval.val)
             /\ UNCHANGED <<proc, panicAt, amx_error>>
        ELSE RaiseErrorUnwrapReturn0(Top, retval)
    /\ UNCHANGED nonNativeVars

NextNative ==
    \/ GuestCallsNative
    \/ CodegenDecode
    \/ CodegenCall
    \/ MacroDecode
    \/ MacroLockCall
    \/ MethodCallsExec
    \/ ExecReturns
    \/ CodegenReturn
    \/ MacroReturn

SpecNative == InitNative /\ [][NextNative]_vars


(***************************************************************************)
(* C3.  If decoding a declared parameter of a native fails, the entry      *)
(* point does not invoke the host method, emits a diagnostic and returns 0 *)
(* to the guest; it never panics or unwinds out of the entry point.        *)
(***************************************************************************)
C3_DecodeFailureAbsorbed_Claimed ==
    /\ \A i \in 1 .. Len(frames) :
          frames[i].decodeFailed => proc = "running"
    /\ IF lastExit = NoExit THEN TRUE
       ELSE lastExit.decodeFailed =>
               /\ ~lastExit.called
               /\ lastExit.logged >= 1
               /\ lastExit.ret = 0

(***************************************************************************)
(* C4.  An entry point compares the argument count of args[0] (bytes,      *)
(* converted to cells) with the number of declared parameters and, on a    *)
(* mismatch, fails before it reads any argument cell args[1..]: no         *)
(* argument cell is read and the host method is not run in that call.      *)
(***************************************************************************)
ArityMismatch(f) == f.args[0] # CellSize * Len(f.sig)

C4_ArityCheckedBeforeReads_Claimed ==
    /\ \A i \in 1 .. Len(frames) :
          ArityMismatch(frames[i]) =>
              frames[i].reads = {} /\ ~frames[i].called
    /\ IF lastExit = NoExit THEN TRUE
       ELSE ArityMismatch(lastExit) =>
               lastExit.reads = {} /\ ~lastExit.called /\ lastExit.ret = 0

(***************************************************************************)
(* C5.  When the host method of a native returns an error, the entry point *)
(* returns 0 to the guest on every path, also when the export it calls on  *)
(* the error path reports a failure; no panic leaves the entry point.      *)
(***************************************************************************)
C5_MethodErrorReturnsZero_Claimed ==
    /\ \A i \in 1 .. Len(frames) :
          (frames[i].called /\ frames[i].pc = "method") => panicAt # "raise_error"
    /\ IF lastExit = NoExit THEN TRUE
       ELSE (lastExit.called /\ ~lastExit.retval.ok) => lastExit.ret = 0

(***************************************************************************)
(* C6.  Re-entrant dispatch completes: a native called by the guest while  *)
(* an outer native of the plugin is inside exec runs and returns; no lock  *)
(* on the plugin state blocks the nested call.                             *)
(***************************************************************************)
C6_NestedNativeNotBlocked_Claimed ==
    Len(frames) >= 2 => (proc # "deadlocked" /\ panicAt # "lock")

(***************************************************************************)
(* C16.  As claimed: when a host method returns an error, the entry point  *)
(* leaves the guest's error state untouched; it does not call the          *)
(* raise-error export.                                                     *)
(***************************************************************************)
C16_MethodErrorNotRaised_Claimed ==
    IF lastExit = NoExit THEN TRUE
    ELSE (lastExit.called /\ ~lastExit.retval.ok) =>
            ~lastExit.raised

(***************************************************************************)
(* C22.  When the host method of a native returns Ok(v), the guest         *)
(* receives the cell whose 32 bits are those of v, for every v, 0 and      *)
(* values with the top bit set included; a by-value parameter reaches the  *)
(* method as the cell the guest passed.                                    *)
(***************************************************************************)
C22_OkValueReachesGuest ==
    IF lastExit = NoExit THEN TRUE
    ELSE (lastExit.called /\ lastExit.retval.ok) =>
            /\ lastExit.ret % 65536 = lastExit.retval.val % 65536
            /\ (lastExit.ret \div 65536) % 65536
                  = (lastExit.retval.val \div 65536) % 65536
            /\ \A i \in 1 .. Len(lastExit.sig) :
                  lastExit.sig[i] = "val" =>
                      lastExit.decoded[i] = lastExit.args[i]

\* The generated entry point of a native with one by-value parameter, called
\* with the cells [1 * cellsize, 7]: the method got 7, returned 500, and the
\* guest received 500.
C22_Witness ==
    /\ lastExit # NoExit
    /\ lastExit.impl = "codegen"
    /\ lastExit.sig = <<"val">>
    /\ lastExit.args[0] = 1 * CellSize /\ lastExit.args[1] = 7
    /\ lastExit.called
    /\ lastExit.decoded = <<7>>
    /\ lastExit.retval = Ok(500)
    /\ lastExit.ret = 500

(***************************************************************************)
(* Host-initiated calls.  The exports of the guest VM the host calls:      *)
(* each returns a status, 0 or a fault, which call! turns into Ok or Err.  *)
(* g is the guest state the export works on: hea, stk, mem and stack.      *)
(***************************************************************************)
Guest == [hea |-> hea, stk |-> stk, mem |-> mem, stack |-> stack]

Outcome(g, res) == [g |-> g, res |-> res]

\* What Allot may return for a request of that many cells: a fault when the
\* heap has no room below the stack, anything otherwise.
AllotStatuses(g, cells) ==
    IF g.hea + CellSize * cells > g.stk THEN {Memory} ELSE ExportStatuses

\* AMX::allot: the address of the block is the old hea, and hea moves up.
allot(g, cells, status) ==
    IF status = 0
    THEN Outcome([g EXCEPT !.hea = @ + CellSize * cells], Ok(Local(0, g.hea)))
    ELSE Outcome(g, Err(AmxError_from(status)))

\* AMX::release: frees all memory above the address.
release(g, address, status) ==
    IF status = 0
    THEN Outcome([g EXCEPT !.hea = IF @ > address THEN address ELSE @], Ok(0))
    ELSE Outcome(g, Err(AmxError_from(status)))

\* AMX::push: one more cell on the guest's stack.
push(g, value, status) ==
    IF status = 0
    THEN Outcome([g EXCEPT !.stk = @ - CellSize,
                           !.stack = Append(@, value)], Ok(0))
    ELSE Outcome(g, Err(AmxError_from(status)))

\* AMX::exec: the guest function runs and takes the pushed cells off the
\* stack; retval is its result cell.
exec(g, retval, status) ==
    LET after == [g EXCEPT !.stk = @ + CellSize * Len(g.stack),
                           !.stack = <<>>]
    IN  IF status = 0
        THEN Outcome(after, Ok(Local(-1, retval)))
        ELSE Outcome(after, Err(AmxError_from(status)))

\* The cells of array written from the address on.
WriteCells(m, address, array) ==
    [i \in DOMAIN m |->
        IF i >= address \div CellSize /\ i < address \div CellSize + Len(array)
        THEN array[i - address \div CellSize + 1]
        ELSE m[i]]

\* How a push ended: it returned a result to its caller, it panicked, or
\* the process was stopped by a memory fault.
Returned(o) == [g |-> o.g, res |-> o.res, ended |-> "returned"]
Panicked(g) == [g |-> g, res |-> Err(0), ended |-> "panicked"]
Crashed(g) == [g |-> g, res |-> Err(0), ended |-> "crashed"]

\* let dest = phys_addr as *mut Cell: phys_addr is a local of allot that the
\* Allot export writes; taken to hold its initializer 0, dest is null and the
\* first write through it faults.
NullDest == Local(0, 1) = 0

\* AMX::push_array, with the statuses Allot and Push return.
push_array_end(g, array, sAllot, sPush) ==
    LET a == allot(g, Len(array), sAllot)
        written == [a.g EXCEPT !.mem = WriteCells(@, a.res.val, array)]
        p == push(written, a.res.val, sPush)
    IN  IF ~a.res.ok THEN Returned(a)
        ELSE IF NullDest /\ array # <<>> THEN Crashed(a.g)
        ELSE IF ~p.res.ok THEN Returned(p)
        ELSE Returned(Outcome(p.g, Ok(a.res.val + CellSize * Len(array))))

push_array(g, array, sAllot, sPush) ==
    LET a == allot(g, Len(array), sAllot)
        written == [a.g EXCEPT !.mem = WriteCells(@, a.res.val, array)]
        p == push(written, a.res.val, sPush)
    IN  IF ~a.res.ok THEN Returned(a)
        ELSE IF NullDest /\ array # <<>> THEN Crashed(a.g)
        ELSE IF ~p.res.ok THEN Returned(p)
        ELSE Returned(Outcome(p.g, Ok(a.res.val)))

\* i32::from of a c_char, which is signed on x86: the byte sign-extended.
i32_from_i8(byte) == IF byte >= 128 THEN byte - 256 ELSE byte

\* i32::from(*character) for a u8 of CStr::to_bytes: the byte zero-extended.
i32_from(byte) == byte % 256

\* AMX::push_string with packed = false: the bytes of the CStr and its NUL,
\* one per cell.
push_string(g, bytes, sAllot, sPush) ==
    LET to_bytes_with_nul == Append(bytes, 0)
        with_nul == [k \in 1 .. Len(to_bytes_with_nul) |->
                        i32_from(to_bytes_with_nul[k])]
        a == allot(g, Len(with_nul), sAllot)
        written == [a.g EXCEPT !.mem = WriteCells(@, a.res.val, with_nul)]
        p == push(written, a.res.val, sPush)
    IN  IF ~a.res.ok THEN Returned(a)
        ELSE IF NullDest THEN Crashed(a.g)
        ELSE IF ~p.res.ok THEN Returned(p)
        ELSE Returned(Outcome(p.g, Ok(a.res.val)))

\* AMX::push_string / Amx::push_string with packed = true: unimplemented!().
push_string_packed(g) == Panicked(g)

\* A text (&str) is a sequence of characters; of each the model keeps the
\* number of bytes of its UTF-8 encoding and its byte in the code page.
Char_h == [utf8 |-> 1, cp |-> 104]
Char_i == [utf8 |-> 1, cp |-> 105]
Char_Ya == [utf8 |-> 2, cp |-> 223]     \* U+042F, 0xDF in cp1251

\* cp1251::encode(string): one byte per character.
cp1251_encode(text) == [k \in 1 .. Len(text) |-> text[k].cp]

\* string.len(): the length of the text in bytes of UTF-8.
RECURSIVE str_len(_)
str_len(text) ==
    IF text = <<>> THEN 0 ELSE Head(text).utf8 + str_len(Tail(text))

\* What lies in the host's memory after the Vec of the encoded bytes.
JunkBytes == {0, 1}

\* transmute_copy::<u8, usize>(&bytes[i]): reads size_of::<usize>() bytes
\* from the address of bytes[i] on, little-endian (a 32-bit host): bytes[i],
\* the bytes after it, and past the Vec's end whatever lies there.
TransmuteCopy(bytes, i, junk) ==
    LET B(k) == IF k < Len(bytes) THEN bytes[k + 1] ELSE junk
        top == IF B(i + 3) >= 128 THEN B(i + 3) - 256 ELSE B(i + 3)
    IN  B(i) + 256 * B(i + 1) + 65536 * B(i + 2) + 16777216 * top

\* Amx::push_string (sdk) with packed = false.  The loop runs i over
\* 0..string.len() and indexes bytes[i], which panics once i reaches
\* bytes.len().
Amx_push_string(g, text, sAllot, sPush, junk) ==
    LET bytes == cp1251_encode(text)
        a == allot(g, Len(bytes) + 1, sAllot)
        cells == [k \in 1 .. Len(bytes) |-> TransmuteCopy(bytes, k - 1, junk)]
        looped == [a.g EXCEPT !.mem = WriteCells(@, a.res.val, cells)]
        ended == [looped EXCEPT
                    !.mem = WriteCells(@, a.res.val + CellSize * str_len(text),
                                       <<0>>)]
        p == push(ended, a.res.val, sPush)
    IN  IF ~a.res.ok THEN Returned(a)
        ELSE IF NullDest THEN Crashed(a.g)
        ELSE IF str_len(text) > Len(bytes) THEN Panicked(looped)
        ELSE IF ~p.res.ok THEN Returned(p)
        ELSE Returned(Outcome(p.g, Ok(a.res.val)))

\* What a call pushes: arrays (the five integers of the documented example,
\* a single cell), an unpacked string ("hi" as a CStr), a string to be
\* packed, and texts handed to the sdk ("hi" and one Cyrillic letter).
Items ==
    { [kind |-> "array", cells |-> <<1, 2, 3, 4, 5>>],
      [kind |-> "array", cells |-> <<9>>],
      [kind |-> "string", cells |-> <<104, 105>>],
      [kind |-> "packed", cells |-> <<104, 105>>],
      [kind |-> "text", cells |-> <<Char_h, Char_i>>],
      [kind |-> "text", cells |-> <<Char_Ya>>] }

RECURSIVE SeqsUpTo(_, _)
SeqsUpTo(S, n) ==
    IF n = 0 THEN {<<>>}
    ELSE LET shorter == SeqsUpTo(S, n - 1)
         IN  shorter \cup {Append(q, x) : q \in shorter, x \in S}

Plans == SeqsUpTo(Items, MaxPushes) \ {<<>>}

InitCall ==
    /\ hea \in {0, CellSize}
    /\ stk = CellSize * HeapCells
    /\ stp = CellSize * HeapCells
    /\ data \in DataPtrs
    /\ gaCall = NoCall
    /\ gaPrev = NoCall
    /\ NativeIdle
    /\ CallIdle
    /\ StrIdle
    /\ FaultIdle
    /\ TimerIdle
    /\ build \in Builds
    /\ RestIdle

SetGuest(g) ==
    /\ hea' = g.hea
    /\ stk' = g.stk
    /\ mem' = g.mem
    /\ stack' = g.stack

\* Host code begins a call of a guest function (call_with_array of the
\* documentation of push_array): it is to push these arrays and strings.
HostStartsCall ==
    /\ callPc = "idle"
    /\ \E q \in Plans : plan' = q
    /\ callPc' = "push"
    /\ hea0' = hea
    /\ UNCHANGED <<hea, stk, mem, stack, firstAddr, pushes, callRes, lastPush,
                   nonCallVars>>

\* let amx_addr = amx.push_array(&array)?;  or  amx.push_string(..)?;
HostPushes ==
    /\ callPc = "push" /\ plan # <<>>
    /\ LET item == Head(plan)
           cells == IF item.kind = "array" THEN Len(item.cells)
                    ELSE Len(item.cells) + 1
       IN  \E sAllot \in AllotStatuses(Guest, cells), sPush \in ExportStatuses,
              junk \in JunkBytes :
             LET r == CASE item.kind = "array" ->
                             push_array(Guest, item.cells, sAllot, sPush)
                        [] item.kind = "string" ->
                             push_string(Guest, item.cells, sAllot, sPush)
                        [] item.kind = "packed" ->
                             push_string_packed(Guest)
                        [] item.kind = "text" ->
                             Amx_push_string(Guest, item.cells, sAllot, sPush, junk)
             IN  /\ SetGuest(r.g)
                 /\ lastPush' = [kind |-> item.kind, cells |-> item.cells,
                                 sAllot |-> sAllot, sPush |-> sPush,
                                 before |-> Guest, after |-> r.g,
                                 res |-> r.res, ended |-> r.ended]
                 /\ IF r.ended # "returned"
                    THEN /\ callPc' = r.ended
                         /\ UNCHANGED <<plan, pushes, firstAddr, callRes>>
                    ELSE IF r.res.ok
                    THEN /\ plan' = Tail(plan)
                         /\ pushes' = pushes + 1
                         /\ firstAddr' = IF pushes = 0 THEN r.res.val
                                         ELSE firstAddr
                         /\ UNCHANGED <<callPc, callRes>>
                    ELSE /\ callPc' = "done"
                         /\ callRes' = r.res
                         /\ UNCHANGED <<plan, pushes, firstAddr>>
    /\ UNCHANGED <<hea0, nonCallVars>>

\* amx.exec(func)?;
HostExecs ==
    /\ callPc = "push" /\ plan = <<>>
    /\ \E status \in ExportStatuses, retval \in {0, 1} :
         LET r == exec(Guest, retval, status)
         IN  /\ SetGuest(r.g)
             /\ IF r.res.ok
                THEN callPc' = "release" /\ UNCHANGED callRes
                ELSE callPc' = "done" /\ callRes' = r.res
    /\ UNCHANGED <<plan, firstAddr, hea0, pushes, lastPush, nonCallVars>>

\* amx.release(amx_addr)?; Ok(())
HostReleases ==
    /\ callPc = "release"
    /\ \E status \in ExportStatuses :
         LET r == release(Guest, firstAddr, status)
         IN  /\ SetGuest(r.g)
             /\ callRes' = r.res
    /\ callPc' = "done"
    /\ UNCHANGED <<plan, firstAddr, hea0, pushes, lastPush, nonCallVars>>

NextCall == HostStartsCall \/ HostPushes \/ HostExecs \/ HostReleases

SpecCall == InitCall /\ [][NextCall]_vars

(***************************************************************************)
(* C7.  A host-initiated call that allots guest heap leaves the guest's    *)
(* heap pointer at its value from before the call on every exit path:      *)
(* success, a push failing after its allot, a later push or allot failing, *)
(* exec returning a fault.                                                 *)
(***************************************************************************)
C7_HeapRestoredOnEveryExit_Claimed ==
    callPc = "done" => hea = hea0

(***************************************************************************)
(* C8.  After one or more push_array / push_string calls, exec, and        *)
(* release of the address the first push returned, the guest's heap        *)
(* pointer is exactly what it was before the first push.                   *)
(***************************************************************************)
C8_PushExecReleaseRoundTrip ==
    (callPc = "done" /\ callRes.ok) => hea = hea0

\* The five-element array and a second block were pushed, and released.
C8_Witness ==
    /\ callPc = "done" /\ callRes.ok
    /\ pushes = 2
    /\ mem[firstAddr \div CellSize + 4] = 5
    /\ mem[firstAddr \div CellSize + 5] # -1
    /\ hea = hea0

(***************************************************************************)
(* C17.  As claimed: push_string with packed = true returns an error value *)
(* (Unsupported) to its caller and leaves the guest as it was: no allot,   *)
(* no write to guest memory, no push.                                      *)
(***************************************************************************)
C17_PackedUnsupported_Claimed ==
    lastPush.kind = "packed" =>
        /\ lastPush.ended = "returned"
        /\ ~lastPush.res.ok
        /\ lastPush.after = lastPush.before

(***************************************************************************)
(* C18.  As claimed: push_string(text, packed = false), when Allot and     *)
(* Push succeed, allots (encoded length + 1) cells, writes the encoded     *)
(* characters one per cell in order and a zero cell after them, writes no  *)
(* other cell, pushes the allotted address and returns it; for every       *)
(* encodable text, ASCII or not.                                           *)
(***************************************************************************)
EncodedBytes(push_) ==
    IF push_.kind = "text"
    THEN [k \in 1 .. Len(push_.cells) |-> push_.cells[k].cp]
    ELSE push_.cells

C18_UnpackedPushString_Claimed ==
    (lastPush.kind \in {"string", "text"}
        /\ lastPush.sAllot = 0 /\ lastPush.sPush = 0) =>
        LET b == EncodedBytes(lastPush)
            n == Len(b)
            base == lastPush.before.hea \div CellSize
        IN  /\ lastPush.ended = "returned"
            /\ lastPush.res = Ok(lastPush.before.hea)
            /\ lastPush.after.hea = lastPush.before.hea + CellSize * (n + 1)
            /\ \A i \in 0 .. HeapCells - 1 :
                  lastPush.after.mem[i] =
                      IF i >= base /\ i < base + n THEN b[i - base + 1]
                      ELSE IF i = base + n THEN 0
                      ELSE lastPush.before.mem[i]
            /\ lastPush.after.stack =
                  Append(lastPush.before.stack, lastPush.before.hea)


(***************************************************************************)
(* Guest strings.  A string lies in guest memory as cells from an address  *)
(* on; m is that memory, m[k] the cell at offset k from the address.       *)
(***************************************************************************)
CHARBITS == 8       \* 8 * size_of::<u8>()

\* (1u32 << ((size_of::<u32>() - 1) * 8)) - 1u32
UNPACKEDMAX == 2 ^ ((CellSize - 1) * CHARBITS) - 1

\* (cell >> shift) as u8: an arithmetic shift of the i32, cut to its low byte.
ShiftToU8(cell, shift) == (cell \div 2 ^ shift) % 256

\* The memory that holds the cells and, after them, a filler cell.
MemoryOf(cells, beyond) ==
    [k \in 0 .. MaxCells + MaxSize + 2 |->
        IF k < Len(cells) THEN cells[k + 1] ELSE beyond]

\* The `while length < size` loop of the packed branch; length is the
\* length of string.
RECURSIVE PackedLoop(_, _, _, _, _, _)
PackedLoop(m, size, i, cell, offset, string) ==
    IF ~(Len(string) < size)
    THEN [bytes |-> string, reads |-> offset]
    ELSE LET fresh == i = CellSize - 1
             c == IF fresh THEN m[offset] ELSE cell
             off == IF fresh THEN offset + 1 ELSE offset
             ch == ShiftToU8(c, i * CHARBITS)
         IN  IF ch = 0
             THEN [bytes |-> string, reads |-> off]
             ELSE PackedLoop(m, size, (i + CellSize - 1) % CellSize, c, off,
                             Append(string, ch))

\* The `while byte != 0 && length < size` loop of the unpacked branch; the
\* cell at offset length has been read into byte.
RECURSIVE UnpackedLoop_le(_, _, _, _)
UnpackedLoop_le(m, size, byte, string) ==
    IF byte # 0 /\ Len(string) <= size
    THEN UnpackedLoop_le(m, size, m[Len(string) + 1],
                         Append(string, ShiftToU8(byte, 0)))
    ELSE [bytes |-> string, reads |-> Len(string) + 1]

RECURSIVE UnpackedLoop(_, _, _, _)
UnpackedLoop(m, size, byte, string) ==
    IF byte # 0 /\ Len(string) < size
    THEN UnpackedLoop(m, size, m[Len(string) + 1],
                      Append(string, ShiftToU8(byte, 0)))
    ELSE [bytes |-> string, reads |-> Len(string) + 1]

\* The test of the first cell: read(address) as u32 > UNPACKEDMAX.
IsPacked_signed(first) == first > UNPACKEDMAX

IsPacked(first) == ULt(UNPACKEDMAX, first)

\* The packed branch, from i = size_of::<Cell>() - 1, offset = 0.
PackedBranch_lsb(m, size) ==
    LET r == PackedLoop(m, size, CellSize - 1, 0, 0, <<>>)
    IN  [bytes |-> [k \in 1 .. Len(r.bytes) |->
                      ShiftToU8(m[(k - 1) \div CellSize],
                                CHARBITS * ((k - 1) % CellSize))],
         reads |-> r.reads]

PackedBranch(m, size) == PackedLoop(m, size, CellSize - 1, 0, 0, <<>>)

\* AMX::get_cstring_of_length; layout tells the branch that was taken.
get_cstring_of_length(m, size) ==
    LET r == IF IsPacked(m[0])
             THEN PackedBranch(m, size)
             ELSE UnpackedLoop(m, size, m[0], <<>>)
    IN  [fn |-> "AMX::get_cstring_of_length",
         layout |-> IF IsPacked(m[0]) THEN "packed" ELSE "unpacked",
         bytes |-> r.bytes, reads |-> r.reads]

\* The cell walk of Amx::get_string (sdk), the same loops; its bytes go on
\* to cp1251::decode.
Amx_get_string(m, size) ==
    LET r == IF IsPacked(m[0])
             THEN PackedBranch(m, size)
             ELSE UnpackedLoop(m, size, m[0], <<>>)
    IN  [fn |-> "Amx::get_string",
         layout |-> IF IsPacked(m[0]) THEN "packed" ELSE "unpacked",
         bytes |-> r.bytes, reads |-> r.reads]

\* Cells a guest string is made of: NUL, 'h', a cell with a zero low byte,
\* the largest unpacked first cell and the smallest packed one, "hell"
\* packed, "h" packed, and two cells with the sign bit set.
StrCellValues ==
    {0, 104, 26624, 16777215, 16777216, 1751477356, 1744830464,
     -1, -2147483647 - 1}

\* "hell" unpacked, as in the specification's example.
HellUnpacked == <<104, 101, 108, 108, 0>>

CellArrays == (SeqsUpTo(StrCellValues, MaxCells) \ {<<>>}) \cup {HellUnpacked}

InitStr ==
    /\ hea = 1 /\ stk = 2 /\ stp = 3
    /\ data = NULL
    /\ gaCall = NoCall
    /\ gaPrev = NoCall
    /\ NativeIdle
    /\ CallIdle
    /\ strCells \in CellArrays
    /\ strBeyond \in {0, 104}
    /\ strSize \in 0 .. MaxSize
    /\ strOut = NoOut
    /\ FaultIdle
    /\ TimerIdle
    /\ build \in Builds
    /\ RestIdle

CallGetCstringOfLength ==
    /\ strOut = NoOut
    /\ strOut' = get_cstring_of_length(MemoryOf(strCells, strBeyond), strSize)
    /\ UNCHANGED <<strCells, strBeyond, strSize, nonStrVars>>

CallAmxGetString ==
    /\ strOut = NoOut
    /\ strOut' = Amx_get_string(MemoryOf(strCells, strBeyond), strSize)
    /\ UNCHANGED <<strCells, strBeyond, strSize, nonStrVars>>

NextStr == CallGetCstringOfLength \/ CallAmxGetString

SpecStr == InitStr /\ [][NextStr]_vars

(***************************************************************************)
(* C9.  A guest string is decoded as packed if and only if its first cell, *)
(* read as an unsigned 32-bit value, is greater than 2^24 - 1: a first     *)
(* cell with the sign bit set is packed, a first cell of exactly           *)
(* 0x00FFFFFF is unpacked.                                                 *)
(***************************************************************************)
Decoded == strOut # NoOut

\* The upper 16 bits of the cell's 32-bit pattern; the unsigned value of the
\* cell exceeds 0x00FFFFFF exactly when they exceed 0x00FF.
UpperHalf(cell) == (cell \div 65536) % 65536

C9_PackedIffAboveUnpackedMax ==
    Decoded =>
        /\ (strOut.layout = "packed") <=> (UpperHalf(strCells[1]) > 255)
        /\ strCells[1] < 0 => strOut.layout = "packed"
        /\ strCells[1] = 16777215 => strOut.layout = "unpacked"

\* A first cell with the sign bit set was decoded, as packed.
C9_Witness ==
    /\ Decoded
    /\ strCells[1] = -2147483647 - 1
    /\ strOut.layout = "packed"
    /\ strSize >= 1

(***************************************************************************)
(* C10.  The decoder yields the characters in storage order: of a packed   *)
(* string the k-th byte (from 0) is the byte at bit offset 24 - 8*(k mod 4)*)
(* of cell floor(k/4), so [0x68656C6C] with max_length 4 gives "hell"; of  *)
(* an unpacked string the k-th byte is the low byte of cell k, so          *)
(* [0x68, 0x65, 0x6C, 0x6C, 0] gives "hell".                               *)
(***************************************************************************)
Hell == <<104, 101, 108, 108>>

ByteAtBit(cell, bit) == (cell \div 2 ^ bit) % 256

C10_BytesInStorageOrder ==
    Decoded =>
        LET m == MemoryOf(strCells, strBeyond)
            out == strOut.bytes
        IN  /\ \A k \in 0 .. Len(out) - 1 :
                  out[k + 1] =
                      IF strOut.layout = "packed"
                      THEN ByteAtBit(m[k \div 4], 24 - 8 * (k % 4))
                      ELSE ByteAtBit(m[k], 0)
            /\ (strCells = <<1751477356>> /\ strSize = 4) => out = Hell
            /\ (strCells = HellUnpacked /\ strSize >= 4) => out = Hell

\* The packed "hell" was decoded from one cell.
C10_Witness ==
    /\ Decoded
    /\ strCells = <<1751477356>> /\ strSize = 4
    /\ strOut.layout = "packed"
    /\ strOut.bytes = Hell


C12_AtMostMaxLength ==
    Decoded => Len(strOut.bytes) <= strSize

\* The unpacked "hell" was cut at max_length = 2, with more characters left.
C12_Witness ==
    /\ Decoded
    /\ strCells = HellUnpacked /\ strSize = 2
    /\ strOut.layout = "unpacked"
    /\ strOut.bytes = <<104, 101>>

(***************************************************************************)
(* Export wrappers and status codes.  Every wrapper of AMX / Amx calls an  *)
(* export of the guest VM through call!, which hands the export's status   *)
(* to ret!: 0 gives Ok of the value read back, anything else               *)
(* Err(AmxError::from(status)).                                            *)
(***************************************************************************)
StatusCodes == -1 .. MaxStatus

\* AMX::find_public / AMX::find_native: index is what the export stores for
\* the name (a Pawn identifier, which holds no NUL).
find_public(index, status) ==
    IF status = 0 THEN Ok(Local(-1, index)) ELSE Err(AmxError_from(status))

find_native(index, status) ==
    IF status = 0 THEN Ok(Local(-1, index)) ELSE Err(AmxError_from(status))

\* AMX::raise_error: the export is handed `error as i32`.
raise_error(error, status) ==
    [passed |-> as_i32(error),
     res |-> IF status = 0 THEN Ok(0) ELSE Err(AmxError_from(status))]

\* The faults host code raises, the cells an exec leaves as its result and
\* the indices a lookup finds.
RaisedFaults == {"Bounds", "Unknown"}
ResultCells == {-1, 500}
AllotCells == 6

InitFault ==
    /\ hea = 0
    /\ stk = CellSize * HeapCells
    /\ stp = CellSize * HeapCells
    /\ data = NULL
    /\ gaCall = NoCall
    /\ gaPrev = NoCall
    /\ NativeIdle
    /\ CallIdle
    /\ StrIdle
    /\ FaultIdle
    /\ TimerIdle
    /\ build \in Builds
    /\ RestIdle

nonFaultVars ==
    <<stp, data, gaCall, gaPrev, frames, mutex, proc, panicAt, lastExit,
      callPc, plan, firstAddr, hea0, pushes, callRes, lastPush, strVars,
      conv, convPrev, timerVars, build, restVars>>

ExportCall(fn, status, out, res) ==
    [fn |-> fn, status |-> status, out |-> out, result |-> res]

CallAllot ==
    \E status \in StatusCodes :
        /\ hea + CellSize * AllotCells > stk => status # 0
        /\ LET r == allot(Guest, AllotCells, status)
           IN  /\ SetGuest(r.g)
               /\ expCall' = ExportCall("allot", status, hea, r.res)
        /\ UNCHANGED <<amx_error, nonFaultVars>>

CallRelease ==
    \E status \in StatusCodes :
        /\ LET r == release(Guest, 0, status)
           IN  /\ SetGuest(r.g)
               /\ expCall' = ExportCall("release", status, 0, r.res)
        /\ UNCHANGED <<amx_error, nonFaultVars>>

CallPush ==
    \E status \in StatusCodes :
        /\ Len(stack) < MaxPushes
        /\ LET r == push(Guest, 7, status)
           IN  /\ SetGuest(r.g)
               /\ expCall' = ExportCall("push", status, 0, r.res)
        /\ UNCHANGED <<amx_error, nonFaultVars>>

CallExec ==
    \E status \in StatusCodes, retval \in ResultCells :
        /\ LET r == exec(Guest, retval, status)
           IN  /\ SetGuest(r.g)
               /\ expCall' = ExportCall("exec", status, retval, r.res)
        /\ UNCHANGED <<amx_error, nonFaultVars>>

CallFindPublic ==
    \E status \in StatusCodes, index \in {3} :
        /\ expCall' = ExportCall("find_public", status, index,
                                 find_public(index, status))
        /\ UNCHANGED <<hea, stk, mem, stack, amx_error, nonFaultVars>>

CallFindNative ==
    \E status \in StatusCodes, index \in {3} :
        /\ expCall' = ExportCall("find_native", status, index,
                                 find_native(index, status))
        /\ UNCHANGED <<hea, stk, mem, stack, amx_error, nonFaultVars>>

CallRaiseError ==
    \E status \in StatusCodes, error \in RaisedFaults :
        LET r == raise_error(error, status)
        IN  /\ expCall' = ExportCall("raise_error", status, 0, r.res)
            /\ amx_error' = IF status = 0 THEN r.passed ELSE amx_error
            /\ UNCHANGED <<hea, stk, mem, stack, nonFaultVars>>

NextFault ==
    \/ CallAllot
    \/ CallRelease
    \/ CallPush
    \/ CallExec
    \/ CallFindPublic
    \/ CallFindNative
    \/ CallRaiseError

SpecFault == InitFault /\ [][NextFault]_vars

(***************************************************************************)
(* C13.  As claimed: exec returns Ok(result cell) exactly when the Exec     *)
(* export returns status 0 and Err(fault) for every other status; allot,   *)
(* release, push, find_public, find_native and raise_error follow the same *)
(* rule: status 0 gives Ok of what the export delivered, any other status  *)
(* Err of the fault the status maps to.                                    *)
(***************************************************************************)
KnownCodes == (1 .. 13) \cup (16 .. 27)

C13_OkExactlyOnStatusZero_Claimed ==
    expCall.fn # "none" =>
        /\ expCall.result.ok <=> expCall.status = 0
        /\ expCall.status = 0 => expCall.result = Ok(expCall.out)
        /\ expCall.status # 0 =>
              expCall.result.err =
                  IF expCall.status \in KnownCodes THEN expCall.status ELSE 28

(***************************************************************************)
(* Conversions: host code turns a status code into a fault with            *)
(* AmxError::from (as ret! does, and throw_exit_error of the               *)
(* documentation) and hands the fault to raise_error.                      *)
(***************************************************************************)
InitConv ==
    /\ hea = 1 /\ stk = 2 /\ stp = 3
    /\ data = NULL
    /\ gaCall = NoCall
    /\ gaPrev = NoCall
    /\ NativeIdle
    /\ CallIdle
    /\ StrIdle
    /\ FaultIdle
    /\ TimerIdle
    /\ build \in Builds
    /\ RestIdle

Convert ==
    \E code \in StatusCodes :
        LET error == AmxError_variant(code)
        IN  /\ convPrev' = conv
            /\ conv' = [code |-> code, fault |-> error,
                        fields |-> AmxErrorFields(error),
                        raised |-> raise_error(error, 0).passed]
            /\ UNCHANGED <<guestVars, gaCall, gaPrev, nativeVars, callVars, strVars,
                           expCall, timerVars, build, restVars>>

NextConv == Convert

SpecConv == InitConv /\ [][NextConv]_vars

(***************************************************************************)
(* C14.  AmxError::from maps every status code c of {1..13, 16..27} to the *)
(* variant whose numeric value is c (4 to Bounds, 8 to HeapLow, 25 to      *)
(* Params): the integer raise_error derives from that fault is c again,    *)
(* and two distinct known codes give two distinct variants.                *)
(***************************************************************************)
Converted(c) == c.fault # "none"

C14_KnownCodesRoundTrip ==
    (Converted(conv) /\ conv.code \in KnownCodes) =>
        /\ conv.raised = conv.code
        /\ conv.code = 4 => conv.fault = "Bounds"
        /\ conv.code = 8 => conv.fault = "HeapLow"
        /\ conv.code = 25 => conv.fault = "Params"
        /\ (Converted(convPrev) /\ convPrev.code \in KnownCodes
               /\ convPrev.code # conv.code)
              => convPrev.fault # conv.fault

\* 8 and then 25 were converted, to HeapLow and to Params.
C14_Witness ==
    /\ convPrev.code = 8 /\ convPrev.fault = "HeapLow"
    /\ conv.code = 25 /\ conv.fault = "Params"
    /\ conv.raised = 25

(***************************************************************************)
(* C15.  As claimed: a status code outside {1..13, 16..27} maps to the     *)
(* catch-all fault carrying that integer: the integer can be read back     *)
(* from the fault, and two different unknown codes give faults that        *)
(* differ.                                                                 *)
(***************************************************************************)
C15_UnknownCarriesCode_Claimed ==
    (Converted(conv) /\ conv.code \notin KnownCodes) =>
        /\ conv.fault = "Unknown"
        /\ conv.fields = <<conv.code>>
        /\ (Converted(convPrev) /\ convPrev.code \notin KnownCodes
               /\ convPrev.code # conv.code)
              => <<convPrev.fault, convPrev.fields>> # <<conv.fault, conv.fields>>

(***************************************************************************)
(* Host-initiated calls with scalar arguments: the timer plugin            *)
(* (src/nfg-timer) and change_hp of the documentation of AMX::push.  A     *)
(* guest function declared with parameters p1..pn expects pn pushed        *)
(* first.                                                                  *)
(***************************************************************************)
\* The arguments the guest hands to create after the four fixed ones: each
\* with its letter in the type string ('d' integer, 's' string) and its cell.
PassedArgs == {[letter |-> l, cell |-> c] : l \in {"d", "s"}, c \in {1, 2}}

ArgLists == SeqsUpTo(PassedArgs, MaxArgs)

\* The loop of create over the arguments: an integer is appended to
\* passed_arguments; the arm of a string appends nothing.
RECURSIVE passed_arguments(_)
passed_arguments(args) ==
    IF args = <<>> THEN <<>>
    ELSE IF Head(args).letter = "d"
         THEN <<Head(args).cell>> \o passed_arguments(Tail(args))
         ELSE passed_arguments(Tail(args))

\* The intervals, in milliseconds, the guest asks for.
Intervals == {2}

\* PreciseTimers::create.  count is args.count(), the number of cells the
\* guest passed; letters the length of the type string; now what
\* Instant::now() returns.  The timer keeps, for the record, the arguments it
\* was created with (args), the number create returned for it (number) and
\* whether its callback has been executed (ran).
create(tl, args, letters, index, status, now, interval, repeat) ==
    LET count == 4 + Len(args)
        found == find_public(index, status)
        timer == [next_trigger |-> now + interval,
                  interval |-> IF repeat THEN Some(interval) ELSE None,
                  passed_arguments |-> passed_arguments(args),
                  amx_callback_index |-> index,
                  args |-> args,
                  number |-> Len(tl) + 1,
                  ran |-> FALSE]
    IN  IF letters # 4 + count THEN [timers |-> tl, res |-> Ok(0)]
        ELSE IF ~found.ok THEN [timers |-> tl, res |-> found]
        ELSE [timers |-> Append(tl, timer), res |-> Ok(Len(tl) + 1)]

\* The for loop of Timer::trigger: each argument is pushed, in the order of
\* passed_arguments; the result of a push is dropped.
RECURSIVE PushEach(_, _, _)
PushEach(g, values, statuses) ==
    IF values = <<>> THEN g
    ELSE PushEach(push(g, Head(values), Head(statuses)).g,
                  Tail(values), Tail(statuses))

\* Timer::trigger; pushed is the guest's stack as exec finds it.
trigger(g, timer, found, statuses, retval, sExec) ==
    LET pushed == PushEach(g, timer.passed_arguments, statuses)
    IN  IF found
        THEN [g |-> exec(pushed, retval, sExec).g, pushed |-> pushed.stack]
        ELSE [g |-> g, pushed |-> <<>>]

\* A repeating timer counted on from its last trigger time.
Retimed_from_last(timer, now) ==
    [timer EXCEPT !.next_trigger = timer.next_trigger + timer.interval.val,
                  !.ran = TRUE]

\* `timer.next_trigger = now + timer.interval` of process_tick, after the
\* callback of the timer was executed.
Retimed(timer, now) ==
    [timer EXCEPT !.next_trigger = now + timer.interval.val,
                  !.ran = TRUE]

\* PreciseTimers::process_tick: the closure of retain, applied to the timers
\* from the front to the back.  triggered tells, for each timer of the list,
\* whether trigger was called on it; calls what each trigger pushed.
RECURSIVE process_tick(_, _, _, _, _, _)
process_tick(g, tl, now, found, statuses, sExec) ==
    IF tl = <<>>
    THEN [g |-> g, timers |-> <<>>, triggered |-> <<>>, calls |-> <<>>]
    ELSE LET timer == Head(tl)
             hit == timer.next_trigger >= now
             st == SubSeq(statuses, 1, Len(timer.passed_arguments))
             r == IF hit THEN trigger(g, timer, found, st, 0, sExec)
                  ELSE [g |-> g, pushed |-> <<>>]
             kept == IF ~hit THEN <<timer>>
                     ELSE IF timer.interval # None
                          THEN <<Retimed(timer, now)>>
                          ELSE <<>>
             call == [kind |-> "timer", found |-> found,
                      declared |-> [k \in 1 .. Len(timer.args) |->
                                       timer.args[k].cell],
                      pushed |-> r.pushed,
                      statuses |-> st]
             rest == process_tick(r.g, Tail(tl), now, found, statuses, sExec)
         IN  [g |-> rest.g,
              timers |-> kept \o rest.timers,
              triggered |-> <<hit>> \o rest.triggered,
              calls |-> (IF hit THEN <<call>> ELSE <<>>) \o rest.calls]

\* VecDeque::swap_remove_back: the element at index is removed and the last
\* element takes its place; None when index is out of bounds.
swap_remove_back(tl, index) ==
    IF index >= Len(tl) THEN [timers |-> tl, removed |-> None]
    ELSE LET short == SubSeq(tl, 1, Len(tl) - 1)
         IN  [timers |-> IF index + 1 = Len(tl) THEN short
                         ELSE [short EXCEPT ![index + 1] = tl[Len(tl)]],
              removed |-> Some(tl[index + 1])]

\* What stands for usize::MAX (2^32 - 1 on x86), the value 0 - 1 wraps to:
\* the largest integer of the checker, beyond every index of a VecDeque.
usize_MAX == 2147483647

\* PreciseTimers::delete.  `timer_number - 1` is a subtraction of usize: for
\* timer_number = 0 it panics in a build with overflow checks (the dev
\* profile) and wraps in one without (the release profile).
delete(tl, timer_number, overflow_checks) ==
    IF timer_number = 0 /\ overflow_checks
    THEN [timers |-> tl, res |-> Ok(0), ended |-> "panicked"]
    ELSE LET index == IF timer_number = 0 THEN usize_MAX
                      ELSE timer_number - 1
             r == swap_remove_back(tl, index)
         IN  [timers |-> r.timers,
              res |-> IF r.removed # None THEN Ok(1) ELSE Ok(0),
              ended |-> "returned"]

InitTimer ==
    /\ hea = 0
    /\ stk = CellSize * HeapCells
    /\ stp = CellSize * HeapCells
    /\ data = NULL
    /\ gaCall = NoCall
    /\ gaPrev = NoCall
    /\ NativeIdle
    /\ CallIdle
    /\ StrIdle
    /\ FaultIdle
    /\ TimerIdle
    /\ build \in Builds
    /\ RestIdle

nonTimerVars ==
    <<stp, data, gaCall, gaPrev, nativeVars, callPc, plan, firstAddr, hea0,
      pushes, callRes, lastPush, strVars, faultVars, build, restVars>>

\* A panic that leaves delete ends the host process.
TimerHalted == timerOp.kind = "delete" /\ timerOp.ended = "panicked"

\* The guest calls the native that schedules a timer, with one of argLists
\* as the arguments for the callback and one of repeats as `repeat`.
TimerCreate(argLists, repeats) ==
    /\ ~TimerHalted
    /\ Len(timers) < MaxTimers
    /\ \E args \in argLists, status \in ExportStatuses,
          interval \in Intervals, repeat \in repeats :
         \E letters \in {Len(args), 8 + Len(args)} :
            LET r == create(timers, args, letters, 3, status, clock,
                            interval, repeat)
            IN  /\ timers' = r.timers
                /\ timerOp' = [kind |-> "create", before |-> timers,
                               res |-> r.res]
    /\ UNCHANGED <<hea, stk, mem, stack, trig, clock, nonTimerVars>>

\* The guest calls the native that deletes a timer.
TimerDelete ==
    /\ ~TimerHalted
    /\ \E timer_number \in 0 .. MaxTimers + 1, overflow_checks \in BOOLEAN :
         LET r == delete(timers, timer_number, overflow_checks)
         IN  /\ timers' = r.timers
             /\ timerOp' = [kind |-> "delete", before |-> timers,
                            n |-> timer_number, res |-> r.res,
                            ended |-> r.ended]
    /\ UNCHANGED <<hea, stk, mem, stack, trig, clock, nonTimerVars>>

\* The server's tick: process_tick, at an instant not before the last one
\* and not after latest, the timers having at most nargs arguments to push.
ProcessTick(latest, nargs) ==
    /\ ~TimerHalted
    /\ \E now \in clock .. Min(clock + 1, latest), found \in BOOLEAN,
          sExec \in ExportStatuses,
          statuses \in [1 .. nargs -> ExportStatuses] :
         LET r == process_tick(Guest, timers, now, found, statuses, sExec)
         IN  /\ SetGuest(r.g)
             /\ timers' = r.timers
             /\ clock' = now
             /\ trig' = IF r.calls = <<>> THEN trig ELSE r.calls[1]
             /\ timerOp' = [kind |-> "tick", before |-> timers, now |-> now,
                            triggered |-> r.triggered]
    /\ UNCHANGED nonTimerVars

\* change_hp(amx, player_id, health) of the documentation of AMX::push, for
\* the public OnPlayerHPChanged(player_id, health).
ChangeHp ==
    \E player_id \in {1, 2}, health \in {50}, sExec \in ExportStatuses :
        LET pushed == PushEach(Guest, <<health, player_id>>, <<0, 0>>)
        IN  /\ SetGuest(exec(pushed, 0, sExec).g)
            /\ trig' = [kind |-> "change_hp", found |-> TRUE,
                        declared |-> <<player_id, health>>,
                        pushed |-> pushed.stack,
                        statuses |-> <<0, 0>>]
            /\ UNCHANGED <<timers, clock, timerOp, nonTimerVars>>

\* Host-initiated calls: timers that run once, the clock standing still.
NextTimer == TimerCreate(ArgLists, {FALSE}) \/ ProcessTick(0, MaxArgs) \/ ChangeHp

SpecTimer == InitTimer /\ [][NextTimer]_vars

\* The timer plugin alone, its timers created without arguments for the
\* callback.
NextTick == TimerCreate({<<>>}, BOOLEAN) \/ TimerDelete \/ ProcessTick(MaxNow, 0)

SpecTick == InitTimer /\ [][NextTick]_vars

(***************************************************************************)
(* C19.  As claimed: a host-initiated call pushes the arguments in reverse *)
(* declared order: for a guest function with parameters p1..pn the pushes  *)
(* before exec are pn, ..., p1; in particular for the arguments a timer    *)
(* passes to its callback.                                                 *)
(***************************************************************************)
Reverse(q) == [k \in 1 .. Len(q) |-> q[Len(q) + 1 - k]]

C19_PushedInReverseOrder_Claimed ==
    (trig.kind # "none" /\ trig.found
        /\ \A k \in DOMAIN trig.statuses : trig.statuses[k] = 0)
        => trig.pushed = Reverse(trig.declared)

(***************************************************************************)
(* The ticks of the timer plugin.  The claims are about the last call of   *)
(* process_tick, create or delete, which timerOp records together with the *)
(* list as it was before the call.                                         *)
(***************************************************************************)
Ticked == timerOp.kind = "tick"

Range(q) == {q[k] : k \in DOMAIN q}

(***************************************************************************)
(* C25.  As claimed: process_tick executes the callback of a timer only    *)
(* if the timer is due, next_trigger <= now; a timer whose next_trigger is *)
(* still in the future is not executed in that tick and is retained        *)
(* unchanged.                                                              *)
(***************************************************************************)
C25_OnlyDueTimersRun_Claimed ==
    Ticked =>
        \A k \in DOMAIN timerOp.before :
            LET timer == timerOp.before[k]
            IN  /\ timerOp.triggered[k] => timer.next_trigger <= timerOp.now
                /\ timer.next_trigger > timerOp.now =>
                       /\ ~timerOp.triggered[k]
                       /\ timer \in Range(timers)

(***************************************************************************)
(* C26.  After process_tick the list holds, in their order, the timers     *)
(* that were not triggered, unchanged, and the triggered timers that       *)
(* repeat, each with next_trigger = now + interval; a triggered timer      *)
(* without interval is gone.  So no timer without interval whose callback  *)
(* has been executed is in the list at any time: its callback runs at most *)
(* once.                                                                   *)
(***************************************************************************)
Stays(k) ==
    ~(timerOp.triggered[k] /\ timerOp.before[k].interval = None)

KeptSlots ==
    SelectSeq([k \in 1 .. Len(timerOp.before) |-> k], Stays)

AfterTick(k) ==
    LET timer == timerOp.before[k]
    IN  IF timerOp.triggered[k]
        THEN [timer EXCEPT !.next_trigger = timerOp.now + timer.interval.val,
                           !.ran = TRUE]
        ELSE timer

C26_TriggeredOnceOrRetimed ==
    /\ Ticked =>
          timers = [j \in 1 .. Len(KeptSlots) |-> AfterTick(KeptSlots[j])]
    /\ \A k \in DOMAIN timers : timers[k].interval = None => ~timers[k].ran

\* A tick after the clock moved triggered a timer without interval and one
\* that repeats.
C26_Witness ==
    /\ Ticked
    /\ timerOp.now > 0
    /\ \E k, j \in DOMAIN timerOp.before :
          /\ timerOp.triggered[k] /\ timerOp.before[k].interval = None
          /\ timerOp.triggered[j] /\ timerOp.before[j].interval # None
    /\ Len(timers) = 1

(***************************************************************************)
(* C27.  As claimed: create returns the slot of the new timer increased by *)
(* 1, never 0 for a created timer; delete(n) removes the timer in slot     *)
(* n - 1 and returns 1 if there was one, and otherwise, n = 0 included,    *)
(* returns 0 and changes no timer.                                         *)
(***************************************************************************)
C27_SlotPlusOne_Claimed ==
    /\ timerOp.kind = "create" =>
          IF timers # timerOp.before
          THEN /\ timerOp.res = Ok(Len(timerOp.before) + 1)
               /\ timerOp.res.val # 0
               /\ Len(timers) = timerOp.res.val
          ELSE timerOp.res # Ok(Len(timerOp.before) + 1)
    /\ timerOp.kind = "delete" =>
          /\ timerOp.ended = "returned"
          /\ IF timerOp.n \in DOMAIN timerOp.before
             THEN /\ timerOp.res = Ok(1)
                  /\ Len(timers) = Len(timerOp.before) - 1
                  /\ \A k \in DOMAIN timerOp.before \ {timerOp.n} :
                        timerOp.before[k] \in Range(timers)
             ELSE /\ timerOp.res = Ok(0)
                  /\ timers = timerOp.before

(***************************************************************************)
(* C28.  As claimed: the number create returned for a timer identifies     *)
(* that timer until it is deleted or expires: whatever was created,        *)
(* deleted or expired before, a delete(n) that removes a timer removes the *)
(* one create returned n for.                                              *)
(***************************************************************************)
C28_NumberKeepsItsTimer_Claimed ==
    (timerOp.kind = "delete" /\ timerOp.ended = "returned"
        /\ timerOp.res = Ok(1))
        => timerOp.before[timerOp.n].number = timerOp.n


(***************************************************************************)
(* By-reference parameters.  A native whose parameter is `&mut i32` (or    *)
(* u32, f32, usize, isize: four bytes each on x86, the one target          *)
(* build.rs admits) gets from AmxValueDecode the reference get_address     *)
(* made, and the method stores through it.  The guest's cell at address a  *)
(* is the four bytes from its data base + a on, least significant first.   *)
(***************************************************************************)
\* Byte k of a cell, least significant first.
ByteOf(cell, k) == (cell \div 2 ^ (CHARBITS * k)) % 256

\* The cell four bytes spell.
CellOf(b0, b1, b2, b3) ==
    b0 + 256 * b1 + 65536 * b2 + 16777216 * (IF b3 >= 128 THEN b3 - 256 ELSE b3)

\* `*reference = value` for an eight-byte value, as usize is off x86.
store_wide(m, location, value) ==
    [l \in DOMAIN m |->
        IF l >= location /\ l < location + CellSize
        THEN ByteOf(value, l - location)
        ELSE IF l >= location + CellSize /\ l < location + 2 * CellSize
        THEN 0
        ELSE m[l]]

\* `*reference = value`: the four bytes at the reference's location.
store(m, location, value) ==
    [l \in DOMAIN m |->
        IF l >= location /\ l < location + CellSize
        THEN ByteOf(value, l - location)
        ELSE m[l]]

\* `*reference`: the cell at the reference's location.
load(m, location) ==
    CellOf(m[location], m[location + 1], m[location + 2], m[location + 3])

\* AmxValueDecode for &mut T and &T: get_address of either layer.
decode_ref(fn, address) ==
    IF fn = "AMX::get_address"
    THEN get_address(hea, stk, stp, data, address)
    ELSE Amx_get_address(hea, stk, stp, data, address)

RefLayers == {"AMX::get_address", "Amx::get_address"}
RefValues == {-1, 16909060}     \* 0xFFFFFFFF and 0x01020304

\* The guest keeps hea <= stk <= stp.
InitRef ==
    /\ hea \in GuestAddrs
    /\ stk \in hea .. MaxAddr
    /\ stp \in stk .. MaxAddr
    /\ data \in DataPtrs
    /\ gaCall = NoCall
    /\ gaPrev = NoCall
    /\ NativeIdle
    /\ CallIdle
    /\ StrIdle
    /\ FaultIdle
    /\ TimerIdle
    /\ build \in Builds
    /\ RestIdle

nonRefVars == <<coreVars, plugVars, tripVars, argVars>>

RefOp(kind, fn, address, value, result) ==
    [kind |-> kind, n |-> refOp.n + 1, fn |-> fn, address |-> address,
     value |-> value, result |-> result, before |-> hostMem,
     guest |-> <<hea, stk, stp>>]

\* A native stores a value through its `&mut` parameter.
NativeStoresRef ==
    \E fn \in RefLayers, address \in Addresses, value \in RefValues :
        /\ refOp.n < MaxStores
        /\ LET r == decode_ref(fn, address)
           IN  /\ hostMem' = IF r.ok THEN store(hostMem, r.val, value)
                                     ELSE hostMem
               /\ refOp' = RefOp("store", fn, address, value, r)
        /\ UNCHANGED nonRefVars

\* A native reads its `&` parameter.
NativeLoadsRef ==
    \E fn \in RefLayers, address \in Addresses :
        /\ refOp.n < MaxStores
        /\ LET r == decode_ref(fn, address)
           IN  refOp' = RefOp("load", fn, address,
                              IF r.ok THEN load(hostMem, r.val) ELSE 0, r)
        /\ UNCHANGED <<hostMem, nonRefVars>>

\* The guest stores a cell of its own, between two native calls.
GuestStores ==
    \E address \in 0 .. MaxAddr - 1 :
        /\ refOp.n < MaxStores
        /\ hostMem' = store(hostMem, data_section(data) + address, 0)
        /\ refOp' = [kind |-> "guest", n |-> refOp.n + 1]
        /\ UNCHANGED nonRefVars

NextRef == NativeStoresRef \/ NativeLoadsRef \/ GuestStores

SpecRef == InitRef /\ [][NextRef]_vars

(***************************************************************************)
(* C21.  On success get_address(a) yields the location data_base + a,      *)
(* where data_base is the explicit data pointer when it is non-null and    *)
(* base + header.dat otherwise; a store through a by-reference parameter   *)
(* changes exactly the guest's cell at address a, which the guest sees at  *)
(* once, and changes no other byte and none of hea, stk, stp.              *)
(***************************************************************************)
data_base == IF data # NULL THEN data ELSE amx_base + header_dat

\* The cell the guest finds at address a of its data.
GuestCell(a) ==
    CellOf(hostMem[data_base + a], hostMem[data_base + a + 1],
           hostMem[data_base + a + 2], hostMem[data_base + a + 3])

C21_StoreThroughReference ==
    (refOp.kind = "store" /\ refOp.result.ok) =>
        /\ refOp.result.val = data_base + refOp.address
        /\ GuestCell(refOp.address) = refOp.value
        /\ \A l \in Locations :
              (l < data_base + refOp.address
                  \/ l >= data_base + refOp.address + CellSize)
              => hostMem[l] = refOp.before[l]
        /\ <<hea, stk, stp>> = refOp.guest

\* A native stored 0x01020304 at address 1 of a guest with an explicit data
\* pointer: the guest reads it back, and the byte before it is as it was.
C21_Witness ==
    /\ refOp.kind = "store" /\ refOp.result.ok
    /\ data # NULL
    /\ refOp.address = 1
    /\ refOp.value = 16909060
    /\ GuestCell(1) = 16909060
    /\ hostMem[data] = HostBytes0[data]
    /\ hostMem[data + 1] = 4


(***************************************************************************)
(* The plugin's life in the process.  The host calls Load once with its    *)
(* plugin data, an array that holds the log sink at index 0 and the table  *)
(* of the guest VM's exports at PLUGIN_DATA_AMX_EXPORTS; then AmxLoad and  *)
(* AmxUnload for each guest, natives as the guests call them, and Unload.  *)
(* Both layers are modelled: #[derive(SampPlugin)] keeps the two pointers  *)
(* in the static INTERNAL (src/codegen/src/plugin.rs), new_plugin! in      *)
(* data::logprintf and data::amx_functions (src/src/macros.rs).            *)
(***************************************************************************)
PluginData ==
    {[logprintf |-> 7000, exports |-> 8000],
     [logprintf |-> 7100, exports |-> 8100]}

AmxIds == {1, 2}
Ordinals == {"Allot", "Exec", "Push"}
EntryPoints == {"Load", "AmxLoad", "native", "export", "AmxUnload", "Unload"}

\* InternalData::new(data)
InternalData_new(d) ==
    [some |-> TRUE, logprintf |-> d.logprintf, amx_functions |-> d.exports]

Did(p, entry) == [p EXCEPT !.done = @ \cup {entry}]

\* Load: PLUGIN = Some(default()); INTERNAL = Some(InternalData::new(data)).
Load(p, layer, d) ==
    [Did(p, "Load") EXCEPT !.layer = layer, !.INTERNAL = InternalData_new(d),
                           !.atLoad = d]

\* AmxLoad and AmxUnload hand the guest to the plugin's amx_load, amx_unload.
AmxLoad(p, amx) == [Did(p, "AmxLoad") EXCEPT !.amxs = @ \cup {amx}]
AmxUnload(p, amx) == [Did(p, "AmxUnload") EXCEPT !.amxs = @ \ {amx}]

\* An Unload that drops what Load stored.
Unload_drops(p) == [Did(p, "Unload") EXCEPT !.INTERNAL = NoInternal]

\* Unload calls the plugin's unload(), and no more.
Unload(p) == Did(p, "Unload")

\* InternalData::amx_function(offset) and import!: the entry of the table.
import(p, ordinal) ==
    [made |-> TRUE, table |-> p.INTERNAL.amx_functions, ordinal |-> ordinal]

\* InternalData::log, log!: the message goes to the stored log sink.
log(p) == [p EXCEPT !.logged = p.INTERNAL.logprintf]

Loaded == plug.layer # "none"

InitPlugin ==
    /\ hea = 1 /\ stk = 2 /\ stp = 3
    /\ data = NULL
    /\ gaCall = NoCall
    /\ gaPrev = NoCall
    /\ NativeIdle
    /\ CallIdle
    /\ StrIdle
    /\ FaultIdle
    /\ TimerIdle
    /\ build \in Builds
    /\ RestIdle

nonPlugVars == <<coreVars, refVars, tripVars, argVars>>

HostLoads ==
    \E layer \in Impls, d \in PluginData :
        /\ ~Loaded
        /\ plug' = Load(plug, layer, d)
        /\ UNCHANGED nonPlugVars

HostLoadsAmx ==
    \E amx \in AmxIds \ plug.amxs :
        /\ Loaded /\ "Unload" \notin plug.done
        /\ plug' = AmxLoad(plug, amx)
        /\ UNCHANGED nonPlugVars

HostUnloadsAmx ==
    \E amx \in plug.amxs :
        /\ plug' = AmxUnload(plug, amx)
        /\ UNCHANGED nonPlugVars

HostUnloads ==
    /\ Loaded /\ "Unload" \notin plug.done
    /\ plug' = Unload(plug)
    /\ UNCHANGED nonPlugVars

\* A guest calls a native: the entry point wraps the guest with internal()
\* and, when the method fails, logs through it.
GuestCallsPluginNative ==
    \E amx \in plug.amxs, failed \in BOOLEAN :
        /\ plug' = Did(IF failed THEN log(plug) ELSE plug, "native")
        /\ UNCHANGED nonPlugVars

\* Host code of the plugin calls an export of the guest VM.
PluginCallsExport ==
    \E ordinal \in Ordinals :
        /\ Loaded
        /\ plug' = [Did(plug, "export") EXCEPT !.lookup = import(plug, ordinal)]
        /\ UNCHANGED nonPlugVars

NextPlugin ==
    \/ HostLoads
    \/ HostLoadsAmx
    \/ HostUnloadsAmx
    \/ HostUnloads
    \/ GuestCallsPluginNative
    \/ PluginCallsExport

SpecPlugin == InitPlugin /\ [][NextPlugin]_vars

(***************************************************************************)
(* C23.  The export-table pointer and the log-sink pointer stored at Load  *)
(* are never changed afterwards, by AmxLoad, a native call, an export      *)
(* call, AmxUnload or Unload: every export lookup after Load indexes the   *)
(* table the host gave at Load.                                            *)
(***************************************************************************)
C23_ExportTableFixed ==
    Loaded =>
        /\ plug.INTERNAL.some
        /\ plug.INTERNAL.amx_functions = plug.atLoad.exports
        /\ plug.INTERNAL.logprintf = plug.atLoad.logprintf
        /\ plug.lookup.made => plug.lookup.table = plug.atLoad.exports
        /\ plug.logged # 0 => plug.logged = plug.atLoad.logprintf

\* Every entry point has run, Unload included, and Exec is still looked up
\* in the table given at Load.
C23_Witness ==
    /\ plug.done = EntryPoints
    /\ plug.atLoad.exports = 8100
    /\ plug.lookup = [made |-> TRUE, table |-> 8100, ordinal |-> "Exec"]
    /\ plug.logged = 7100


(***************************************************************************)
(* Strings written to the guest and read back.  Host code writes a CStr    *)
(* with AMX::push_string (into a block it allots) or with                  *)
(* AMX::set_cstr_of_size (into a buffer of the guest, dest, of             *)
(* allowed_length cells), and AMX::get_cstring_of_length decodes the cells *)
(* at that place.                                                          *)
(***************************************************************************)
\* AMX::set_cstr_of_size: dest is the index of the cell dest_address points
\* to.  written is the set of the cells the function stored to.
set_cstr_of_size(m, string, dest, allowed_length) ==
    LET taken == Min(allowed_length, Len(string))
    IN  [mem |-> [i \in DOMAIN m |->
                     IF i >= dest /\ i < dest + taken
                     THEN i32_from(string[i - dest + 1])
                     ELSE IF i = dest + taken THEN 0
                     ELSE m[i]],
         written |-> dest .. dest + taken]

\* The bytes of a CStr: printable, none of them zero.  'h' and 0xDF.
CStrBytes == {104, 223}
CStrs == SeqsUpTo(CStrBytes, MaxCells)

\* The guest's buffer for set_cstr_of_size begins at this cell.
DestCell == 2

InitTrip ==
    /\ hea \in {0, CellSize}
    /\ stk = CellSize * HeapCells
    /\ stp = CellSize * HeapCells
    /\ data = NULL
    /\ gaCall = NoCall
    /\ gaPrev = NoCall
    /\ NativeIdle
    /\ CallIdle
    /\ StrIdle
    /\ FaultIdle
    /\ TimerIdle
    /\ build \in Builds
    /\ RestIdle

nonTripVars ==
    <<stp, data, gaCall, gaPrev, nativeVars, callPc, plan, firstAddr, hea0,
      pushes, callRes, lastPush, strVars, faultVars, timerVars, build,
      refVars, plugVars, argVars>>

Trip(encoder, string, dest, allowed_length, written, ended) ==
    [encoder |-> encoder, string |-> string, dest |-> dest,
     allowed_length |-> allowed_length, written |-> written,
     ended |-> ended, before |-> mem, decoded |-> NoOut, size |-> 0]

\* Host code pushes a string for a call of a guest function: the first
\* string it writes.
HostPushesString ==
    \E string \in CStrs :
      \E sAllot \in AllotStatuses(Guest, Len(string) + 1),
         sPush \in ExportStatuses :
        /\ trip = NoTrip
        /\ LET r == push_string(Guest, string, sAllot, sPush)
               block == hea \div CellSize
           IN  /\ SetGuest(r.g)
               /\ trip' = Trip("push_string", string, block, Len(string) + 1,
                               IF r.ended = "returned" /\ r.res.ok
                               THEN block .. block + Len(string) ELSE {},
                               IF r.ended = "returned" /\ ~r.res.ok
                               THEN "failed" ELSE r.ended)
        /\ UNCHANGED nonTripVars

\* A native writes a string into the buffer the guest passed.
NativeSetsCstr ==
    \E string \in CStrs, allowed_length \in 0 .. MaxSize :
        /\ trip = NoTrip
        /\ allowed_length <= Len(string) + 1
        /\ LET r == set_cstr_of_size(mem, string, DestCell, allowed_length)
           IN  /\ mem' = r.mem
               /\ trip' = Trip("set_cstr_of_size", string, DestCell,
                               allowed_length, r.written, "returned")
        /\ UNCHANGED <<hea, stk, stack, nonTripVars>>

\* The cells from the place the string was written to.
CellsFrom(dest) ==
    [k \in 0 .. MaxCells + MaxSize + 2 |->
        IF dest + k < HeapCells THEN mem[dest + k] ELSE 0]

\* The string is read back with a max_length of size.
HostDecodes ==
    \E size \in 0 .. MaxSize :
        /\ trip.encoder # "none" /\ trip.ended = "returned"
        /\ trip.decoded = NoOut
        /\ trip' = [trip EXCEPT
                       !.decoded = get_cstring_of_length(CellsFrom(trip.dest),
                                                         size),
                       !.size = size]
        /\ UNCHANGED <<hea, stk, mem, stack, nonTripVars>>

NextTrip == HostPushesString \/ NativeSetsCstr \/ HostDecodes

SpecTrip == InitTrip /\ [][NextTrip]_vars

(***************************************************************************)
(* C24.  Round trip through guest memory: for every byte sequence b of     *)
(* printable characters, none zero, the cells written by push_string, or   *)
(* by set_cstr_of_size with allowed_length >= len(b), are b followed by a  *)
(* zero cell, and decoding them with max_length >= len(b) returns b.       *)
(***************************************************************************)
Written ==
    /\ trip.encoder # "none"
    /\ trip.ended = "returned"
    /\ trip.allowed_length >= Len(trip.string)

C24_RoundTrip ==
    Written =>
        /\ \A k \in 1 .. Len(trip.string) :
              mem[trip.dest + k - 1] = trip.string[k]
        /\ mem[trip.dest + Len(trip.string)] = 0
        /\ (trip.decoded # NoOut /\ trip.size >= Len(trip.string))
              => trip.decoded.bytes = trip.string

\* "h", 0xDF, "h" was pushed and read back with a max_length of 3, and
\* 0xDF, "h" was set into a buffer of three cells and read back.
C24_Witness ==
    /\ Written
    /\ trip.decoded # NoOut
    /\ \/ /\ trip.encoder = "push_string"
          /\ trip.string = <<104, 223, 104>>
          /\ trip.size = 3
          /\ trip.decoded.bytes = <<104, 223, 104>>
       \/ /\ trip.encoder = "set_cstr_of_size"
          /\ trip.string = <<223, 104>>
          /\ trip.allowed_length = 3
          /\ trip.decoded.bytes = <<223, 104>>

(***************************************************************************)
(* C30.  As claimed: set_cstr_of_size writes only destination cells with   *)
(* index < allowed_length, the size of the caller's buffer, for every      *)
(* string length, lengths >= allowed_length included, and leaves every     *)
(* other cell unchanged.                                                   *)
(***************************************************************************)
C30_WritesInsideBuffer_Claimed ==
    trip.encoder = "set_cstr_of_size" =>
        /\ \A i \in trip.written : i < trip.dest + trip.allowed_length
        /\ \A i \in DOMAIN mem :
              (i < trip.dest \/ i >= trip.dest + trip.allowed_length)
              => mem[i] = trip.before[i]

(***************************************************************************)
(* String arguments.  A native whose parameter is a String (sdk) has       *)
(* AmxValueDecode resolve the argument cell with get_address, ask the      *)
(* host's StrLen for the length and hand the pointer to get_string; a      *)
(* native of src/src reads its parameter with AMX::get_cstring, which does *)
(* the same with get_cstring_of_length.  The guest's cells are at the      *)
(* addresses 0, CellSize, ...; the last of them holds 0.                   *)
(***************************************************************************)
ArgSlots == 0 .. MaxCells

ArgCellValues == {0, 104, 1751477356}

ArgMemories ==
    {m \in [ArgSlots -> ArgCellValues] : m[MaxCells] = 0}

\* The cells from the address on, as the decoders index them.
CellsAt(m, address) ==
    [k \in 0 .. MaxCells + MaxSize + 2 |->
        IF address \div CellSize + k \in ArgSlots
        THEN m[address \div CellSize + k]
        ELSE 0]

\* The export StrLen (sdk/types.rs) of the host: the number of characters
\* before the terminator, of either layout.
StrLen(m) == Len(Amx_get_string(m, CellSize * (MaxCells + 1)).bytes)

\* string_len of either layer: call!(string_len(address, &mut length) =>
\* length as usize).
string_len(m, status) ==
    IF status = 0 THEN Ok(StrLen(m)) ELSE Err(status)

\* The addresses of the first n cells from the address on.
AddressesRead(address, n) == {address + CellSize * k : k \in 0 .. n - 1}

\* <String as AmxValueDecode>::decode of sdk/src/arguments.rs.
String_decode(h, s, p, d, m, value, status) ==
    LET ptr == Amx_get_address(h, s, p, d, value)
        length == string_len(CellsAt(m, value), status)
        r == Amx_get_string(CellsAt(m, value), length.val + 1)
    IN  IF ~ptr.ok THEN [res |-> ptr, reads |-> {}]
        ELSE IF ~length.ok THEN [res |-> length, reads |-> {}]
        ELSE [res |-> Ok(r.bytes), reads |-> AddressesRead(value, r.reads)]

\* AMX::get_cstring of src/src/amx.rs.
get_cstring(h, s, p, d, m, pointer, status) ==
    LET address == get_address(h, s, p, d, pointer)
        len == string_len(CellsAt(m, pointer), status)
        r == get_cstring_of_length(CellsAt(m, pointer), len.val)
    IN  IF ~address.ok THEN [res |-> address, reads |-> {}]
        ELSE IF ~len.ok THEN [res |-> len, reads |-> {}]
        ELSE [res |-> Ok(r.bytes), reads |-> AddressesRead(pointer, r.reads)]

ArgAddrs == {CellSize * k : k \in 0 .. MaxCells + 1}

InitArg ==
    /\ hea \in ArgAddrs
    /\ stk \in {a \in ArgAddrs : hea <= a}
    /\ stp \in {a \in ArgAddrs : stk <= a}
    /\ data = NULL
    /\ gaCall = NoCall
    /\ gaPrev = NoCall
    /\ NativeIdle
    /\ CallIdle
    /\ StrIdle
    /\ FaultIdle
    /\ TimerIdle
    /\ build \in Builds
    /\ RestIdle

nonArgVars == <<coreVars, refVars, plugVars, tripVars>>

\* A native of the sdk takes a String parameter.
NativeDecodesString ==
    /\ sarg = NoArg
    /\ \E m \in ArgMemories, value \in ArgAddrs, status \in ExportStatuses :
         LET r == String_decode(hea, stk, stp, data, m, value, status)
         IN  sarg' = [fn |-> "String::decode", cells |-> m,
                      address |-> value, res |-> r.res, reads |-> r.reads]
    /\ UNCHANGED nonArgVars

\* A native of src/src reads a string parameter with get_cstring.
NativeGetsCstring ==
    /\ sarg = NoArg
    /\ \E m \in ArgMemories, pointer \in ArgAddrs, status \in ExportStatuses :
         LET r == get_cstring(hea, stk, stp, data, m, pointer, status)
         IN  sarg' = [fn |-> "AMX::get_cstring", cells |-> m,
                      address |-> pointer, res |-> r.res, reads |-> r.reads]
    /\ UNCHANGED nonArgVars

NextArg == NativeDecodesString \/ NativeGetsCstring

SpecArg == InitArg /\ [][NextArg]_vars

(***************************************************************************)
(* C29.  As claimed: while a string argument is decoded, every cell read   *)
(* lies at an address get_address would accept, not in [hea, stk) and      *)
(* below stp: a string that starts at a valid address and has no NUL       *)
(* before hea or stp is not read past that boundary.                       *)
(***************************************************************************)
C29_ReadsStayAccepted_Claimed ==
    sarg # NoArg =>
        \A a \in sarg.reads : ~(a >= hea /\ a < stk) /\ a < stp

=============================================================================
